---- MODULE Spec2Model ----
(***************************************************************************)
(* Creeping-limit execution of option calendar spreads                     *)
(* (alpaca_integration.py): the open chase place_calendar_spread_order and *)
(* the close chase close_calendar_spread_order and the single-leg chase    *)
(* close_single_option_leg_order, run against an order gateway (the        *)
(* broker) that fills, expires and cancels orders on its own schedule      *)
(* (specification Spec); and run_trade_workflow (trade_workflow.py) with   *)
(* the notifier threads of monitor_fill_async (specification Workflow).    *)
(*                                                                         *)
(* Units.  Quotes and limit prices are whole cents.  The ladder price      *)
(* (price_to_chase / price) and the step are kept in HALF-cents, because   *)
(* the mid of two cent quotes and half the sum of two widths are multiples *)
(* of half a cent; round(x, 2) maps a half-cent value to cents.  Money     *)
(* (total_cost_so_far, max_total_cost_allowed) is in dollars: a contract   *)
(* at p cents costs p * 100 / 100 = p dollars.  total_filled_value is in   *)
(* cent-contracts (avg price in cents times quantity).  Arithmetic is      *)
(* exact; the floats of the program are not modelled beyond round(x, 2).   *)
(*                                                                         *)
(* Gateway.  submit_order, get_order_by_id and cancel_order_by_id each     *)
(* answer or raise.  A cancel that succeeds makes the order terminal; a    *)
(* cancel of a terminal order answers 422.  Between two calls of the chase *)
(* the gateway may fill more of any live order or end it.                  *)
(***************************************************************************)
EXTENDS Integers, Sequences, FiniteSets

VARIABLES
    chase,                       \* "open" | "close" | "leg" | "none"
    client_ok,                   \* init_alpaca_client returned a client
    quotes,                      \* the quote source's answer, per leg
    original_intended_quantity,  \* original_intended_quantity / quantity
    max_total_cost_allowed,      \* << >> is None, <<c>> is c dollars
    limit_price,                 \* limit_price (open chase): << >> is None,
                                 \* <<p>> is p half-cents
    target_debit_price,          \* target_debit_price (open chase), likewise
    pc,                          \* position of the chase
    price_to_chase,              \* price_to_chase / price, half-cents
    chase_step,                  \* chase_step / step, half-cents
    effective_max_chase_price,   \* ... / min_price, half-cents
    current_limit_price_attempt, \* current_limit_price_attempt / lp, cents
    remaining_overall_quantity,  \* remaining_overall_quantity / remaining
    total_cost_so_far,           \* total_cost_so_far (open chase), dollars
    total_filled_qty,            \* total_filled_qty
    total_filled_value,          \* total_filled_value, cent-contracts
    total_commission,            \* total_commission (open chase)
    filled_order_details,        \* id of filled_order_details, 0 while unbound
    last_order,                  \* last_order (close chase)
    polled,                      \* wait_for_fill has polled in this wait
    orders,                      \* the gateway's book: the orders of this chase,
                                 \* each with what the chase reconciled of it
    ret,                         \* the value returned to the caller
    on_filled_calls,             \* number of on_filled invocations
    on_filled_args,              \* the values on_filled was invoked with
    endReason,                   \* how the chase ended
    everReported,                \* some poll reported filled_qty > 0
    overLimit,                   \* some poll reported an average > limit
    position_intent,             \* position_intent (single-leg chase)
    cancel_answer,               \* the gateway's answer to the cancel request
                                 \* of this rung: "none" | "ok" | "422" | "error"
    submit_answer,               \* the gateway's answers to submit_order, in
                                 \* the order of the calls: "ok" | "refused"
    \* run_trade_workflow and the notifier threads of monitor_fill_async
    run_pc,                      \* position of run_trade_workflow
    open_trades,                 \* get_open_trades(): the Size of each trade
    todays_earnings,             \* number of candidates of get_todays_earnings
    trade_i,                     \* index of the loop over trades / candidates
    join_i,                      \* index of the loop over trade_monitor_threads
    trade_monitor_threads,       \* trade_monitor_threads: notifiers to join
    notifier,                    \* the notifier threads ever started
    trade_fill_queue,            \* trade_fill_queue
    executed,                    \* persistence actions run, in order
    put_log                      \* every put on trade_fill_queue, in order

\* the arguments of the call and the answers of its collaborators
inputs ==
    <<chase, client_ok, quotes, original_intended_quantity,
      max_total_cost_allowed, limit_price, target_debit_price,
      position_intent>>

\* the state of one chase
chase_vars ==
    <<inputs, pc, price_to_chase, chase_step, effective_max_chase_price,
      current_limit_price_attempt, remaining_overall_quantity,
      total_cost_so_far, total_filled_qty, total_filled_value,
      total_commission, filled_order_details, last_order, polled, orders, ret,
      on_filled_calls, on_filled_args, endReason, everReported, overLimit,
      cancel_answer, submit_answer>>

\* what the collaborators of run_trade_workflow answered
run_inputs == <<open_trades, todays_earnings>>

\* the state of a run of the workflow
workflow_vars ==
    <<run_inputs, run_pc, trade_i, join_i, trade_monitor_threads, notifier,
      trade_fill_queue, executed, put_log>>

vars == <<chase_vars, workflow_vars>>

(***************************************************************************)
(* Bounds of the model.                                                    *)
(***************************************************************************)
MaxQty == 2
MaxCeil == 4
MaxLegQty == 3
MaxTrades == 2
MaxSize == 2
MaxPolls == 2
MaxCandidates == 1

(***************************************************************************)
(* Arithmetic helpers.                                                     *)
(***************************************************************************)
Min(a, b) == IF a <= b THEN a ELSE b

Max(a, b) == IF a >= b THEN a ELSE b

\* math.floor(a / b) for b > 0 (Python true division followed by floor).
FloorDiv(a, b) == IF a >= 0 THEN a \div b ELSE -((-a + b - 1) \div b)

\* round(x, 2) of a half-cent value, in cents.  A value on a cent is itself;
\* a value half-way between two cents goes to one of its two neighbours,
\* which one depends on the binary representation of the float.
RoundCents(p2) ==
    IF p2 % 2 = 0 THEN {p2 \div 2} ELSE {(p2 - 1) \div 2, (p2 + 1) \div 2}

(***************************************************************************)
(* Quote source.  A leg's quote is << >> (no quote in the response) or     *)
(* <<bid, ask>>, where bid and ask are << >> (None) or <<cents>>.          *)
(***************************************************************************)
Leg(b, a) == << <<b>>, <<a>> >>

NoQuote == << >>

LegNoBid(a) == << << >>, <<a>> >>

LegNoAsk(b) == << <<b>>, << >> >>

GoodQuotes ==
    { [s |-> Leg(1, 3), l |-> Leg(2, 5)],
      [s |-> Leg(2, 3), l |-> Leg(1, 3)],
      [s |-> Leg(1, 1), l |-> Leg(1, 2)] }

BadQuotes ==
    { [s |-> NoQuote, l |-> Leg(2, 5)],
      [s |-> Leg(1, 3), l |-> LegNoAsk(2)],
      [s |-> LegNoBid(3), l |-> Leg(2, 5)] }

QuoteSet == GoodQuotes \cup BadQuotes

\* The single-leg chase asks for one symbol only: its quote is field l.
LegQuoteSet ==
    { [s |-> NoQuote, l |-> Leg(1, 3)],
      [s |-> NoQuote, l |-> Leg(2, 2)],
      [s |-> NoQuote, l |-> NoQuote],
      [s |-> NoQuote, l |-> LegNoBid(3)] }

Intents == {"SELL_TO_CLOSE", "BUY_TO_CLOSE", "OTHER"}

PriceOr0(x) == IF x = << >> THEN 0 ELSE x[1]

get_spread_quotes_default_zero(q) ==
    [ok |-> TRUE,
     sb |-> IF q.s = << >> THEN 0 ELSE PriceOr0(q.s[1]),
     sa |-> IF q.s = << >> THEN 0 ELSE PriceOr0(q.s[2]),
     lb |-> IF q.l = << >> THEN 0 ELSE PriceOr0(q.l[1]),
     la |-> IF q.l = << >> THEN 0 ELSE PriceOr0(q.l[2])]

\* get_spread_quotes: the four prices, or RuntimeError (ok = FALSE) unless
\* both legs are in the response and each has a bid and an ask.
get_spread_quotes(q) ==
    IF \/ q.s = << >> \/ q.l = << >>
       \/ q.s[1] = << >> \/ q.s[2] = << >>
       \/ q.l[1] = << >> \/ q.l[2] = << >>
    THEN [ok |-> FALSE, sb |-> 0, sa |-> 0, lb |-> 0, la |-> 0]
    ELSE [ok |-> TRUE, sb |-> q.s[1][1], sa |-> q.s[2][1],
          lb |-> q.l[1][1], la |-> q.l[2][1]]

\* get_single_option_quotes: bid and ask, or RuntimeError (ok = FALSE) when
\* the client cannot be initialised, the symbol is not in the response or
\* its bid or ask is None.
get_single_option_quotes(ok, q) ==
    IF ~ok \/ q.l = << >> \/ q.l[1] = << >> \/ q.l[2] = << >>
    THEN [ok |-> FALSE, bid |-> 0, ask |-> 0]
    ELSE [ok |-> TRUE, bid |-> q.l[1][1], ask |-> q.l[2][1]]

(***************************************************************************)
(* Price ladder, from the prices g that get_spread_quotes returned.        *)
(***************************************************************************)
ChaseStepNoFloor(g) == (g.sa - g.sb) + (g.la - g.lb)

\* chase_step = max((spread_short + spread_long) / 2.0, 0.01), half-cents
ChaseStep(g) == Max((g.sa - g.sb) + (g.la - g.lb), 2)

\* current_market_mid_spread = (long_bid+long_ask)/2 - (short_bid+short_ask)/2
OpenStartPrice(g) == (g.lb + g.la) - (g.sb + g.sa)

\* effective_max_chase_price = long_ask
OpenBound(g) == 2 * g.la

OpenLadderNearTarget(g, lp, tdp) ==
    [price_to_chase |-> OpenStartPrice(g),
     chase_step |-> ChaseStep(g),
     effective_max_chase_price |->
         IF tdp = << >> THEN OpenBound(g)
         ELSE Min(OpenBound(g), tdp[1] + ChaseStep(g))]

\* The ladder of an open chase as the prologue sets it up from the prices g
\* and the arguments limit_price (lp) and target_debit_price (tdp): lp is
\* rounded into a local that nothing reads, tdp is printed.
OpenLadder(g, lp, tdp) ==
    [price_to_chase |-> OpenStartPrice(g),
     chase_step |-> ChaseStep(g),
     effective_max_chase_price |-> OpenBound(g)]

\* price = -(long_ask - short_bid)
CloseStartPrice(g) == -2 * (g.la - g.sb)

CloseBoundLongAsk(g) == 2 * g.la

\* min_price = short_ask
CloseBound(g) == 2 * g.sa

\* Single-leg chase: step = max(spread / 10, 0.01) times step_direction,
\* half-cents.  Exact for the spreads of LegQuoteSet (at most 10 cents, where
\* the step is the 0.01 floor).
LegStep(g, intent) ==
    (IF intent = "SELL_TO_CLOSE" THEN -1 ELSE 1)
        * Max(((g.ask - g.bid) * 2) \div 10, 2)

\* price_to_chase starts at the ask (selling) or at the bid (buying)
LegStartPrice(g, intent) ==
    IF intent = "SELL_TO_CLOSE" THEN 2 * g.ask ELSE 2 * g.bid

\* price_limit is the bid (selling) or the ask (buying)
LegBound(g, intent) ==
    IF intent = "SELL_TO_CLOSE" THEN 2 * g.bid ELSE 2 * g.ask

\* the rounded price crossed price_limit in the direction of the chase
LegCrossed(lp, limit2, intent) ==
    IF intent = "SELL_TO_CLOSE" THEN 2 * lp < limit2 ELSE 2 * lp > limit2

(***************************************************************************)
(* Sizing of one rung of the open chase.                                   *)
(***************************************************************************)
affordable_qty_uses_ceiling(ceil, cost, lp, rem) ==
    IF ceil = << >> THEN rem
    ELSE IF lp <= 0 THEN (IF ceil[1] - cost < 0 THEN 0 ELSE rem)
    ELSE IF ceil[1] > 0 THEN FloorDiv(ceil[1], lp)
    ELSE 0

affordable_qty_rounds_up(ceil, cost, lp, rem) ==
    IF ceil = << >> THEN rem
    ELSE IF lp <= 0 THEN (IF ceil[1] - cost < 0 THEN 0 ELSE rem)
    ELSE IF ceil[1] - cost > 0 THEN FloorDiv(ceil[1] - cost + lp - 1, lp)
    ELSE 0

\* affordable_qty_at_this_lp
affordable_qty_at_this_lp(ceil, cost, lp, rem) ==
    IF ceil = << >> THEN rem
    ELSE IF lp <= 0 THEN (IF ceil[1] - cost < 0 THEN 0 ELSE rem)
    ELSE IF ceil[1] - cost > 0 THEN FloorDiv(ceil[1] - cost, lp)
    ELSE 0

qty_for_this_order_attempt_no_min(rem, aff) == aff

\* qty_for_this_order_attempt = min(remaining_overall_quantity, affordable)
qty_for_this_order_attempt(rem, aff) == Min(rem, aff)

(***************************************************************************)
(* Aggregation of one reconciled fill.                                     *)
(***************************************************************************)
add_fill_overwrites(value, avg, f) == avg * f

\* total_filled_value += avg_price * filled_qty_this_order
add_fill(value, avg, f) == value + avg * f

\* What a status poll reports as the commission of an order of which f
\* contracts are filled: one unit per contract.  << >> stands for an order
\* object without commission, such as the one submit_order returns.
CommissionChoices(f) == {<<f>>}

\* getattr(order, 'commission', 0) or 0
commission_of(raw) == IF raw = << >> THEN 0 ELSE raw[1]

add_commission_overwrites(total, raw) == commission_of(raw)

\* total_commission += getattr(filled_order_details, 'commission', 0) or 0
add_commission(total, raw) == total + commission_of(raw)

(***************************************************************************)
(* Values returned to the caller.                                          *)
(***************************************************************************)
Absent ==
    [kind |-> "none", id |-> 0, qty |-> 0, value |-> 0, commission |-> 0]

\* the order object submit_order returned: nothing filled, no commission
OrderHandle(i) ==
    [kind |-> "order", id |-> i, qty |-> 0, value |-> 0,
     commission |-> commission_of(<< >>)]

OpenResultAlwaysSummary(total, value, commission, id) ==
    [kind |-> "summary", id |-> id, qty |-> total, value |-> value,
     commission |-> commission]

\* the tail of place_calendar_spread_order
OpenResult(total, value, commission, id) ==
    IF total > 0
    THEN [kind |-> "summary", id |-> id, qty |-> total, value |-> value,
          commission |-> commission]
    ELSE Absent

CloseResultNoneWhenUnfilled(total, value, qty, last) ==
    IF total > 0 /\ total < qty
    THEN (IF last.kind # "none"
          THEN [kind |-> "summary", id |-> last.id, qty |-> total,
                value |-> value, commission |-> last.commission]
          ELSE last)
    ELSE IF total = qty THEN last
    ELSE Absent

\* the tail of close_calendar_spread_order
CloseResult(total, value, qty, last) ==
    IF total > 0 /\ total < qty
    THEN (IF last.kind # "none"
          THEN [kind |-> "summary", id |-> last.id, qty |-> total,
                value |-> value, commission |-> last.commission]
          ELSE last)
    ELSE IF total = qty THEN last
    ELSE last

\* the tail of close_single_option_leg_order
LegResult(total, last) ==
    IF total > 0 /\ last.kind # "none" THEN last ELSE Absent

(***************************************************************************)
(* The broker.                                                             *)
(***************************************************************************)
Live(i) == orders[i].st = "live"

Cur == Len(orders)

LiveOrders == {i \in 1..Len(orders) : Live(i)}

\* The average fill price a status poll may report for an order limited at lp.
AvgChoices(lp) == {lp - 1, lp, lp + 1}

\* No run of the workflow is in progress.
WorkflowIdle ==
    /\ run_pc = "idle"
    /\ open_trades = << >>
    /\ todays_earnings = 0
    /\ trade_i = 0 /\ join_i = 0
    /\ trade_monitor_threads = << >>
    /\ notifier = << >>
    /\ trade_fill_queue = << >>
    /\ executed = << >>
    /\ put_log = << >>

Init ==
    /\ WorkflowIdle
    /\ chase \in {"open", "close", "leg"}
    /\ client_ok \in BOOLEAN
    /\ quotes \in IF chase = "leg" THEN LegQuoteSet ELSE QuoteSet
    /\ position_intent \in IF chase = "leg" THEN Intents ELSE {"none"}
    /\ original_intended_quantity \in
           0..(IF chase = "leg" THEN MaxLegQty ELSE MaxQty)
    /\ max_total_cost_allowed \in {<< >>} \cup {<<c>> : c \in 0..MaxCeil}
    /\ (chase # "open" => max_total_cost_allowed = << >>)
    /\ limit_price = << >> /\ target_debit_price = << >>
    /\ pc = "start"
    /\ price_to_chase = 0 /\ chase_step = 0
    /\ effective_max_chase_price = 0 /\ current_limit_price_attempt = 0
    /\ remaining_overall_quantity = 0 /\ total_cost_so_far = 0
    /\ total_filled_qty = 0 /\ total_filled_value = 0
    /\ total_commission = 0
    /\ filled_order_details = 0
    /\ last_order = Absent
    /\ polled = FALSE
    /\ orders = << >>
    /\ ret = Absent
    /\ on_filled_calls = 0
    /\ on_filled_args = << >>
    /\ endReason = "running"
    /\ everReported = FALSE
    /\ overLimit = FALSE
    /\ cancel_answer = "none"
    /\ submit_answer = << >>

(***************************************************************************)
(* Operations of the broker, which run on their own schedule while a chase *)
(* is in progress.                                                         *)
(***************************************************************************)
\* The market fills k more contracts of a live order.
BrokerFill ==
    /\ pc \notin {"start", "done"}
    /\ \E i \in LiveOrders :
         \E k \in 1..(orders[i].qty - orders[i].filled) :
            orders' = [orders EXCEPT
                         ![i].filled = @ + k,
                         ![i].st = IF orders[i].filled + k = orders[i].qty
                                   THEN "filled" ELSE "live"]
    /\ UNCHANGED <<workflow_vars, inputs, current_limit_price_attempt, pc,
                   price_to_chase, chase_step, effective_max_chase_price,
                   remaining_overall_quantity, total_cost_so_far,
                   total_filled_qty, total_filled_value, total_commission,
                   filled_order_details, last_order, polled, ret,
                   on_filled_calls, on_filled_args, endReason, everReported,
                   overLimit, cancel_answer, submit_answer>>

\* The broker ends a live order itself (the order is canceled on the
\* broker's side): it is terminal from then on.
BrokerEnd ==
    /\ pc \notin {"start", "done"}
    /\ \E i \in LiveOrders :
         orders' = [orders EXCEPT ![i].st = "canceled"]
    /\ UNCHANGED <<workflow_vars, inputs, current_limit_price_attempt, pc,
                   price_to_chase, chase_step, effective_max_chase_price,
                   remaining_overall_quantity, total_cost_so_far,
                   total_filled_qty, total_filled_value, total_commission,
                   filled_order_details, last_order, polled, ret,
                   on_filled_calls, on_filled_args, endReason, everReported,
                   overLimit, cancel_answer, submit_answer>>

(***************************************************************************)
(* place_calendar_spread_order                                             *)
(***************************************************************************)
\* return from the function: the summary (with on_filled) or None
OpenFinish(reason) ==
    /\ ret' = OpenResult(total_filled_qty, total_filled_value,
                         total_commission, filled_order_details)
    /\ on_filled_calls' = IF ret'.kind = "summary"
                          THEN on_filled_calls + 1 ELSE on_filled_calls
    /\ on_filled_args' = IF ret'.kind = "summary"
                         THEN Append(on_filled_args, ret')
                         ELSE on_filled_args
    /\ endReason' = reason
    /\ pc' = "done"

AbortReraises(reason) ==
    /\ ret' = [kind |-> "exception", id |-> 0, qty |-> 0, value |-> 0,
               commission |-> 0]
    /\ endReason' = reason
    /\ pc' = "done"
    /\ UNCHANGED <<on_filled_calls, on_filled_args>>

\* the outer "except Exception": print and return None
Abort(reason) ==
    /\ ret' = Absent
    /\ endReason' = reason
    /\ pc' = "done"
    /\ UNCHANGED <<on_filled_calls, on_filled_args>>

AdvanceByCent ==
    /\ price_to_chase' = price_to_chase + (IF chase_step < 0 THEN -2 ELSE 2)
    /\ pc' = "loop"
    /\ UNCHANGED <<ret, on_filled_calls, on_filled_args, endReason>>

\* price_to_chase += chase_step, back to the loop test
Advance ==
    /\ price_to_chase' = price_to_chase + chase_step
    /\ pc' = "loop"
    /\ UNCHANGED <<ret, on_filled_calls, on_filled_args, endReason>>

OpenStartQuotesFirst ==
    /\ chase = "open" /\ pc = "start"
    /\ IF ~client_ok
       THEN /\ Abort("no_client")
            /\ UNCHANGED <<price_to_chase, chase_step,
                           effective_max_chase_price,
                           remaining_overall_quantity>>
       ELSE IF ~get_spread_quotes(quotes).ok
       THEN /\ Abort("quotes")
            /\ UNCHANGED <<price_to_chase, chase_step,
                           effective_max_chase_price,
                           remaining_overall_quantity>>
       ELSE IF original_intended_quantity < 1
       THEN /\ Abort("precondition")
            /\ UNCHANGED <<price_to_chase, chase_step,
                           effective_max_chase_price,
                           remaining_overall_quantity>>
       ELSE /\ LET ladder == OpenLadder(get_spread_quotes(quotes),
                                        limit_price, target_debit_price)
               IN /\ price_to_chase' = ladder.price_to_chase
                  /\ chase_step' = ladder.chase_step
                  /\ effective_max_chase_price' =
                         ladder.effective_max_chase_price
            /\ remaining_overall_quantity' = original_intended_quantity
            /\ pc' = "loop"
            /\ UNCHANGED <<ret, on_filled_calls, on_filled_args, endReason>>
    /\ UNCHANGED <<workflow_vars, inputs, current_limit_price_attempt,
                   total_cost_so_far, total_filled_qty, total_filled_value,
                   total_commission, filled_order_details, last_order, polled,
                   orders, everReported, overLimit, cancel_answer,
                   submit_answer>>

\* quantity check, quotes, ladder and aggregator initialisation
OpenStart ==
    /\ chase = "open" /\ pc = "start"
    /\ IF ~client_ok
       THEN /\ Abort("no_client")
            /\ UNCHANGED <<price_to_chase, chase_step,
                           effective_max_chase_price,
                           remaining_overall_quantity>>
       ELSE IF original_intended_quantity < 1
       THEN /\ Abort("precondition")
            /\ UNCHANGED <<price_to_chase, chase_step,
                           effective_max_chase_price,
                           remaining_overall_quantity>>
       ELSE IF ~get_spread_quotes(quotes).ok
       THEN /\ Abort("quotes")
            /\ UNCHANGED <<price_to_chase, chase_step,
                           effective_max_chase_price,
                           remaining_overall_quantity>>
       ELSE /\ LET ladder == OpenLadder(get_spread_quotes(quotes),
                                        limit_price, target_debit_price)
               IN /\ price_to_chase' = ladder.price_to_chase
                  /\ chase_step' = ladder.chase_step
                  /\ effective_max_chase_price' =
                         ladder.effective_max_chase_price
            /\ remaining_overall_quantity' = original_intended_quantity
            /\ pc' = "loop"
            /\ UNCHANGED <<ret, on_filled_calls, on_filled_args, endReason>>
    /\ UNCHANGED <<workflow_vars, inputs, current_limit_price_attempt,
                   total_cost_so_far, total_filled_qty, total_filled_value,
                   total_commission, filled_order_details, last_order, polled,
                   orders, everReported, overLimit, cancel_answer,
                   submit_answer>>

\* the loop test fails: Done or Exhausted
OpenLoopExit ==
    /\ chase = "open" /\ pc = "loop"
    /\ ~(/\ remaining_overall_quantity > 0
         /\ price_to_chase <= effective_max_chase_price)
    /\ OpenFinish(IF remaining_overall_quantity <= 0
                  THEN "done" ELSE "exhausted")
    /\ UNCHANGED <<workflow_vars, inputs, current_limit_price_attempt,
                   price_to_chase, chase_step, effective_max_chase_price,
                   remaining_overall_quantity, total_cost_so_far,
                   total_filled_qty, total_filled_value, total_commission,
                   filled_order_details, last_order, polled, orders,
                   everReported, overLimit, cancel_answer, submit_answer>>

OpenSubmitRefusalAborts ==
    /\ chase = "open" /\ pc = "loop"
    /\ remaining_overall_quantity > 0
    /\ price_to_chase <= effective_max_chase_price
    /\ \E lp \in RoundCents(price_to_chase) :
         LET aff == affordable_qty_at_this_lp(
                        max_total_cost_allowed, total_cost_so_far, lp,
                        remaining_overall_quantity)
             q == qty_for_this_order_attempt(remaining_overall_quantity, aff)
         IN /\ current_limit_price_attempt' = lp
            /\ cancel_answer' = "none"
            /\ IF q < 1
               THEN /\ OpenFinish("unaffordable")
                    /\ UNCHANGED <<orders, price_to_chase, polled,
                                   submit_answer>>
               ELSE \/ /\ submit_answer' = Append(submit_answer, "ok")
                       /\ orders' = Append(orders,
                                      [qty |-> q, lp |-> lp, filled |-> 0,
                                       st |-> "live",
                                       remAt |-> remaining_overall_quantity,
                                       costAt |-> total_cost_so_far,
                                       rec |-> 0, avg |-> 0, com |-> << >>])
                       /\ polled' = FALSE
                       /\ pc' = "wait"
                       /\ UNCHANGED <<price_to_chase, ret, on_filled_calls,
                                      on_filled_args, endReason>>
                    \/ /\ submit_answer' = Append(submit_answer, "refused")
                       /\ Abort("submit_error")
                       /\ UNCHANGED <<orders, price_to_chase, polled>>
    /\ UNCHANGED <<workflow_vars, inputs, chase_step,
                   effective_max_chase_price, remaining_overall_quantity,
                   total_cost_so_far, total_filled_qty, total_filled_value,
                   total_commission, filled_order_details, last_order,
                   everReported, overLimit>>

\* one pass of the loop head: size the rung, then stop (Unaffordable),
\* or submit the order; a submission the gateway refuses is caught by the
\* inner "except Exception" and the price advances.
OpenSubmit ==
    /\ chase = "open" /\ pc = "loop"
    /\ remaining_overall_quantity > 0
    /\ price_to_chase <= effective_max_chase_price
    /\ \E lp \in RoundCents(price_to_chase) :
         LET aff == affordable_qty_at_this_lp(
                        max_total_cost_allowed, total_cost_so_far, lp,
                        remaining_overall_quantity)
             q == qty_for_this_order_attempt(remaining_overall_quantity, aff)
         IN /\ current_limit_price_attempt' = lp
            /\ cancel_answer' = "none"
            /\ IF q < 1
               THEN /\ OpenFinish("unaffordable")
                    /\ UNCHANGED <<orders, price_to_chase, polled,
                                   submit_answer>>
               ELSE \/ /\ submit_answer' = Append(submit_answer, "ok")
                       /\ orders' = Append(orders,
                                      [qty |-> q, lp |-> lp, filled |-> 0,
                                       st |-> "live",
                                       remAt |-> remaining_overall_quantity,
                                       costAt |-> total_cost_so_far,
                                       rec |-> 0, avg |-> 0, com |-> << >>])
                       /\ polled' = FALSE
                       /\ pc' = "wait"
                       /\ UNCHANGED <<price_to_chase, ret, on_filled_calls,
                                      on_filled_args, endReason>>
                    \/ /\ submit_answer' = Append(submit_answer, "refused")
                       /\ Advance
                       /\ UNCHANGED <<orders, polled>>
    /\ UNCHANGED <<workflow_vars, inputs, chase_step,
                   effective_max_chase_price, remaining_overall_quantity,
                   total_cost_so_far, total_filled_qty, total_filled_value,
                   total_commission, filled_order_details, last_order,
                   everReported, overLimit>>

\* wait_for_fill polls the order and sees no fill yet: sleep and poll again
OpenPollEmpty ==
    /\ chase = "open" /\ pc = "wait"
    /\ orders[Cur].filled = 0
    /\ polled' = TRUE
    /\ UNCHANGED <<workflow_vars, inputs, current_limit_price_attempt, pc,
                   price_to_chase, chase_step, effective_max_chase_price,
                   remaining_overall_quantity, total_cost_so_far,
                   total_filled_qty, total_filled_value, total_commission,
                   filled_order_details, last_order, orders, ret,
                   on_filled_calls, on_filled_args, endReason, everReported,
                   overLimit, cancel_answer, submit_answer>>

\* get_order_by_id raises: the inner "except Exception" prints, the order is
\* not canceled, and the price advances
OpenPollError ==
    /\ chase = "open" /\ pc = "wait"
    /\ Advance
    /\ UNCHANGED <<workflow_vars, inputs, current_limit_price_attempt,
                   chase_step, effective_max_chase_price,
                   remaining_overall_quantity, total_cost_so_far,
                   total_filled_qty, total_filled_value, total_commission,
                   filled_order_details, last_order, polled, orders,
                   everReported, overLimit, cancel_answer, submit_answer>>

OpenPollFilledNotifiesSlice ==
    /\ chase = "open" /\ pc = "wait"
    /\ orders[Cur].filled > 0
    /\ \E avg \in AvgChoices(orders[Cur].lp),
          c \in CommissionChoices(orders[Cur].filled) :
         LET f == orders[Cur].filled
         IN /\ total_cost_so_far' = total_cost_so_far + avg * f
            /\ remaining_overall_quantity' = remaining_overall_quantity - f
            /\ total_filled_qty' = total_filled_qty + f
            /\ total_filled_value' = add_fill(total_filled_value, avg, f)
            /\ total_commission' = add_commission(total_commission, c)
            /\ filled_order_details' = Cur
            /\ orders' = [orders EXCEPT ![Cur].rec = f, ![Cur].avg = avg,
                                        ![Cur].com = c]
            /\ everReported' = TRUE
            /\ overLimit' = (overLimit \/ avg > orders[Cur].lp)
            /\ IF remaining_overall_quantity - f <= 0
               THEN /\ ret' = OpenResult(total_filled_qty + f,
                                         add_fill(total_filled_value, avg, f),
                                         add_commission(total_commission, c),
                                         Cur)
                    /\ on_filled_calls' =
                          IF ret'.kind = "summary"
                          THEN on_filled_calls + 1 ELSE on_filled_calls
                    /\ on_filled_args' =
                          IF ret'.kind = "summary"
                          THEN Append(on_filled_args, ret')
                          ELSE on_filled_args
                    /\ endReason' = "done"
                    /\ pc' = "done"
                    /\ UNCHANGED price_to_chase
               ELSE /\ on_filled_calls' = on_filled_calls + 1
                    /\ on_filled_args' =
                          Append(on_filled_args,
                                 [kind |-> "summary", id |-> Cur, qty |-> f,
                                  value |-> avg * f,
                                  commission |-> commission_of(c)])
                    /\ UNCHANGED <<ret, endReason>>
                    /\ IF f < orders[Cur].qty /\ orders[Cur].st # "canceled"
                       THEN /\ pc' = "cancelPartial"
                            /\ UNCHANGED price_to_chase
                       ELSE /\ price_to_chase' = price_to_chase + chase_step
                            /\ pc' = "loop"
    /\ UNCHANGED <<workflow_vars, inputs,
                   current_limit_price_attempt, chase_step,
                   effective_max_chase_price, last_order, polled,
                   cancel_answer, submit_answer>>

\* wait_for_fill returns a snapshot with filled_qty > 0; the rung is
\* reconciled; then break (all filled), cancel the remainder, or advance
OpenPollFilled ==
    /\ chase = "open" /\ pc = "wait"
    /\ orders[Cur].filled > 0
    /\ \E avg \in AvgChoices(orders[Cur].lp),
          c \in CommissionChoices(orders[Cur].filled) :
         LET f == orders[Cur].filled
         IN /\ total_cost_so_far' = total_cost_so_far + avg * f
            /\ remaining_overall_quantity' = remaining_overall_quantity - f
            /\ total_filled_qty' = total_filled_qty + f
            /\ total_filled_value' = add_fill(total_filled_value, avg, f)
            /\ total_commission' = add_commission(total_commission, c)
            /\ filled_order_details' = Cur
            /\ orders' = [orders EXCEPT ![Cur].rec = f, ![Cur].avg = avg,
                                        ![Cur].com = c]
            /\ everReported' = TRUE
            /\ overLimit' = (overLimit \/ avg > orders[Cur].lp)
            /\ IF remaining_overall_quantity - f <= 0
               THEN /\ ret' = OpenResult(total_filled_qty + f,
                                         add_fill(total_filled_value, avg, f),
                                         add_commission(total_commission, c),
                                         Cur)
                    /\ on_filled_calls' =
                          IF ret'.kind = "summary"
                          THEN on_filled_calls + 1 ELSE on_filled_calls
                    /\ on_filled_args' =
                          IF ret'.kind = "summary"
                          THEN Append(on_filled_args, ret')
                          ELSE on_filled_args
                    /\ endReason' = "done"
                    /\ pc' = "done"
                    /\ UNCHANGED price_to_chase
               ELSE IF f < orders[Cur].qty /\ orders[Cur].st # "canceled"
               THEN /\ pc' = "cancelPartial"
                    /\ UNCHANGED <<price_to_chase, ret, on_filled_calls,
                                   on_filled_args, endReason>>
               ELSE Advance
    /\ UNCHANGED <<workflow_vars, inputs,
                   current_limit_price_attempt, chase_step,
                   effective_max_chase_price, last_order, polled,
                   cancel_answer, submit_answer>>

OpenTimeoutReconciles ==
    /\ chase = "open" /\ pc = "wait"
    /\ polled
    /\ pc' = "cancelTimeout"
    /\ remaining_overall_quantity' =
           remaining_overall_quantity - orders[Cur].filled
    /\ total_filled_qty' = total_filled_qty + orders[Cur].filled
    /\ UNCHANGED <<workflow_vars, inputs, current_limit_price_attempt,
                   price_to_chase, chase_step, effective_max_chase_price,
                   total_cost_so_far, total_filled_value, total_commission,
                   filled_order_details, last_order, polled, orders, ret,
                   on_filled_calls, on_filled_args, endReason, everReported,
                   overLimit, cancel_answer, submit_answer>>

\* the deadline of wait_for_fill passes after a poll that saw no fill
OpenTimeout ==
    /\ chase = "open" /\ pc = "wait"
    /\ polled
    /\ pc' = "cancelTimeout"
    /\ UNCHANGED <<workflow_vars, inputs, current_limit_price_attempt,
                   price_to_chase, chase_step, effective_max_chase_price,
                   remaining_overall_quantity, total_cost_so_far,
                   total_filled_qty, total_filled_value, total_commission,
                   filled_order_details, last_order, polled, orders, ret,
                   on_filled_calls, on_filled_args, endReason, everReported,
                   overLimit, cancel_answer, submit_answer>>

\* cancel_order_by_id after a partial fill.  A live order is canceled, or
\* the request fails; a terminal order answers 422 (ignored), or the request
\* fails.  A failure is re-raised into the inner "except Exception": the
\* loop goes on to the price advance.
OpenCancelPartial ==
    /\ chase = "open" /\ pc = "cancelPartial"
    /\ \/ /\ Live(Cur)
          /\ orders' = [orders EXCEPT ![Cur].st = "canceled"]
          /\ cancel_answer' = "ok"
       \/ /\ ~Live(Cur)
          /\ cancel_answer' = "422"
          /\ UNCHANGED orders
       \/ /\ cancel_answer' = "error"
          /\ UNCHANGED orders
    /\ Advance
    /\ UNCHANGED <<workflow_vars, inputs, current_limit_price_attempt,
                   chase_step, effective_max_chase_price,
                   remaining_overall_quantity, total_cost_so_far,
                   total_filled_qty, total_filled_value, total_commission,
                   filled_order_details, last_order, polled, everReported,
                   overLimit, submit_answer>>

OpenCancelTimeoutRaises422 ==
    /\ chase = "open" /\ pc = "cancelTimeout"
    /\ \/ /\ Live(Cur)
          /\ orders' = [orders EXCEPT ![Cur].st = "canceled"]
          /\ cancel_answer' = "ok"
          /\ Advance
       \/ /\ ~Live(Cur)
          /\ cancel_answer' = "422"
          /\ UNCHANGED <<orders, price_to_chase>>
          /\ Abort("cancel_error")
       \/ /\ cancel_answer' = "error"
          /\ UNCHANGED <<orders, price_to_chase>>
          /\ Abort("cancel_error")
    /\ UNCHANGED <<workflow_vars, inputs, current_limit_price_attempt,
                   chase_step, effective_max_chase_price,
                   remaining_overall_quantity, total_cost_so_far,
                   total_filled_qty, total_filled_value, total_commission,
                   filled_order_details, last_order, polled, everReported,
                   overLimit, submit_answer>>

\* cancel_order_by_id in the TimeoutError handler.  A failure other than
\* 422 is re-raised out of the handler, past the inner "except Exception",
\* into the outer one: the function returns None.
OpenCancelTimeout ==
    /\ chase = "open" /\ pc = "cancelTimeout"
    /\ \/ /\ Live(Cur)
          /\ orders' = [orders EXCEPT ![Cur].st = "canceled"]
          /\ cancel_answer' = "ok"
          /\ Advance
       \/ /\ ~Live(Cur)
          /\ cancel_answer' = "422"
          /\ UNCHANGED orders
          /\ Advance
       \/ /\ cancel_answer' = "error"
          /\ UNCHANGED <<orders, price_to_chase>>
          /\ Abort("cancel_error")
    /\ UNCHANGED <<workflow_vars, inputs, current_limit_price_attempt,
                   chase_step, effective_max_chase_price,
                   remaining_overall_quantity, total_cost_so_far,
                   total_filled_qty, total_filled_value, total_commission,
                   filled_order_details, last_order, polled, everReported,
                   overLimit, submit_answer>>

(***************************************************************************)
(* close_calendar_spread_order                                             *)
(***************************************************************************)
\* return from the function after the loop
CloseFinish(reason) ==
    /\ ret' = CloseResult(total_filled_qty, total_filled_value,
                          original_intended_quantity, last_order)
    /\ endReason' = reason
    /\ pc' = "done"
    /\ UNCHANGED <<on_filled_calls, on_filled_args>>

\* quotes, ladder and aggregator initialisation
CloseStart ==
    /\ chase = "close" /\ pc = "start"
    /\ IF ~client_ok
       THEN /\ Abort("no_client")
            /\ UNCHANGED <<price_to_chase, chase_step,
                           effective_max_chase_price,
                           remaining_overall_quantity>>
       ELSE IF ~get_spread_quotes(quotes).ok
       THEN /\ Abort("quotes")
            /\ UNCHANGED <<price_to_chase, chase_step,
                           effective_max_chase_price,
                           remaining_overall_quantity>>
       ELSE /\ price_to_chase' = CloseStartPrice(get_spread_quotes(quotes))
            /\ chase_step' = ChaseStep(get_spread_quotes(quotes))
            /\ effective_max_chase_price' =
                   CloseBound(get_spread_quotes(quotes))
            /\ remaining_overall_quantity' = original_intended_quantity
            /\ pc' = "loop"
            /\ UNCHANGED <<ret, on_filled_calls, on_filled_args, endReason>>
    /\ UNCHANGED <<workflow_vars, inputs, current_limit_price_attempt,
                   total_cost_so_far, total_filled_qty, total_filled_value,
                   total_commission, filled_order_details, last_order, polled,
                   orders, everReported, overLimit, cancel_answer,
                   submit_answer>>

\* the loop test fails
CloseLoopExit ==
    /\ chase = "close" /\ pc = "loop"
    /\ ~(/\ remaining_overall_quantity > 0
         /\ price_to_chase <= effective_max_chase_price)
    /\ CloseFinish(IF remaining_overall_quantity <= 0
                   THEN "done" ELSE "exhausted")
    /\ UNCHANGED <<workflow_vars, inputs, current_limit_price_attempt,
                   price_to_chase, chase_step, effective_max_chase_price,
                   remaining_overall_quantity, total_cost_so_far,
                   total_filled_qty, total_filled_value, total_commission,
                   filled_order_details, last_order, polled, orders,
                   everReported, overLimit, cancel_answer, submit_answer>>

\* submit_order for the whole remaining quantity; a submission the gateway
\* refuses raises into the outer "except Exception": the function returns None
CloseSubmit ==
    /\ chase = "close" /\ pc = "loop"
    /\ remaining_overall_quantity > 0
    /\ price_to_chase <= effective_max_chase_price
    /\ \E lp \in RoundCents(price_to_chase) :
         /\ current_limit_price_attempt' = lp
         /\ cancel_answer' = "none"
         /\ \/ /\ submit_answer' = Append(submit_answer, "ok")
               /\ orders' = Append(orders,
                              [qty |-> remaining_overall_quantity,
                               lp |-> lp, filled |-> 0, st |-> "live",
                               remAt |-> remaining_overall_quantity,
                               costAt |-> total_cost_so_far,
                               rec |-> 0, avg |-> 0, com |-> << >>])
               /\ last_order' = OrderHandle(Len(orders) + 1)
               /\ polled' = FALSE
               /\ pc' = "wait"
               /\ UNCHANGED <<ret, on_filled_calls, on_filled_args,
                              endReason>>
            \/ /\ submit_answer' = Append(submit_answer, "refused")
               /\ Abort("submit_error")
               /\ UNCHANGED <<orders, last_order, polled>>
    /\ UNCHANGED <<workflow_vars, inputs, price_to_chase, chase_step,
                   effective_max_chase_price, remaining_overall_quantity,
                   total_cost_so_far, total_filled_qty, total_filled_value,
                   total_commission, filled_order_details, everReported,
                   overLimit>>

\* wait_for_fill polls the order and sees no fill yet
ClosePollEmpty ==
    /\ chase = "close" /\ pc = "wait"
    /\ orders[Cur].filled = 0
    /\ polled' = TRUE
    /\ UNCHANGED <<workflow_vars, inputs, current_limit_price_attempt, pc,
                   price_to_chase, chase_step, effective_max_chase_price,
                   remaining_overall_quantity, total_cost_so_far,
                   total_filled_qty, total_filled_value, total_commission,
                   filled_order_details, last_order, orders, ret,
                   on_filled_calls, on_filled_args, endReason, everReported,
                   overLimit, cancel_answer, submit_answer>>

\* get_order_by_id raises: not a TimeoutError, so it reaches the outer
\* "except Exception" and the function returns None
ClosePollError ==
    /\ chase = "close" /\ pc = "wait"
    /\ Abort("poll_error")
    /\ UNCHANGED <<workflow_vars, inputs, current_limit_price_attempt,
                   price_to_chase, chase_step, effective_max_chase_price,
                   remaining_overall_quantity, total_cost_so_far,
                   total_filled_qty, total_filled_value, total_commission,
                   filled_order_details, last_order, polled, orders,
                   everReported, overLimit, cancel_answer, submit_answer>>

ClosePollFilledTakesOrderAsFilled ==
    /\ chase = "close" /\ pc = "wait"
    /\ orders[Cur].filled > 0
    /\ \E avg \in AvgChoices(orders[Cur].lp),
          c \in CommissionChoices(orders[Cur].filled) :
         LET f == orders[Cur].filled
             snap == [kind |-> "snapshot", id |-> Cur,
                      qty |-> total_filled_qty + f,
                      value |-> add_fill(total_filled_value, avg, f),
                      commission |-> commission_of(c)]
         IN /\ remaining_overall_quantity' =
                   remaining_overall_quantity - orders[Cur].qty
            /\ total_filled_qty' = total_filled_qty + f
            /\ total_filled_value' = add_fill(total_filled_value, avg, f)
            /\ orders' = [orders EXCEPT ![Cur].rec = f, ![Cur].avg = avg,
                                        ![Cur].com = c]
            /\ everReported' = TRUE
            /\ overLimit' = (overLimit \/ avg > orders[Cur].lp)
            /\ IF remaining_overall_quantity - orders[Cur].qty <= 0
               THEN /\ last_order' = snap
                    /\ ret' = CloseResult(total_filled_qty + f,
                                          add_fill(total_filled_value, avg, f),
                                          original_intended_quantity, snap)
                    /\ endReason' = "done"
                    /\ pc' = "done"
               ELSE /\ pc' = "cancelPartial"
                    /\ UNCHANGED <<last_order, ret, endReason>>
    /\ UNCHANGED <<workflow_vars, inputs, current_limit_price_attempt,
                   price_to_chase, chase_step, effective_max_chase_price,
                   total_cost_so_far, total_commission, filled_order_details,
                   polled, on_filled_calls, on_filled_args, cancel_answer,
                   submit_answer>>

\* wait_for_fill returns a snapshot with filled_qty > 0; the rung is
\* reconciled; then break with the cumulative snapshot, or go on to cancel
\* the unfilled remainder (the "else" branch of the try)
ClosePollFilled ==
    /\ chase = "close" /\ pc = "wait"
    /\ orders[Cur].filled > 0
    /\ \E avg \in AvgChoices(orders[Cur].lp),
          c \in CommissionChoices(orders[Cur].filled) :
         LET f == orders[Cur].filled
             snap == [kind |-> "snapshot", id |-> Cur,
                      qty |-> total_filled_qty + f,
                      value |-> add_fill(total_filled_value, avg, f),
                      commission |-> commission_of(c)]
         IN /\ remaining_overall_quantity' = remaining_overall_quantity - f
            /\ total_filled_qty' = total_filled_qty + f
            /\ total_filled_value' = add_fill(total_filled_value, avg, f)
            /\ orders' = [orders EXCEPT ![Cur].rec = f, ![Cur].avg = avg,
                                        ![Cur].com = c]
            /\ everReported' = TRUE
            /\ overLimit' = (overLimit \/ avg > orders[Cur].lp)
            /\ IF remaining_overall_quantity - f <= 0
               THEN /\ last_order' = snap
                    /\ ret' = CloseResult(total_filled_qty + f,
                                          add_fill(total_filled_value, avg, f),
                                          original_intended_quantity, snap)
                    /\ endReason' = "done"
                    /\ pc' = "done"
               ELSE /\ pc' = "cancelPartial"
                    /\ UNCHANGED <<last_order, ret, endReason>>
    /\ UNCHANGED <<workflow_vars, inputs, current_limit_price_attempt,
                   price_to_chase, chase_step, effective_max_chase_price,
                   total_cost_so_far, total_commission, filled_order_details,
                   polled, on_filled_calls, on_filled_args, cancel_answer,
                   submit_answer>>

\* the deadline of wait_for_fill passes after a poll that saw no fill
CloseTimeout ==
    /\ chase = "close" /\ pc = "wait"
    /\ polled
    /\ pc' = "cancelTimeout"
    /\ UNCHANGED <<workflow_vars, inputs, current_limit_price_attempt,
                   price_to_chase, chase_step, effective_max_chase_price,
                   remaining_overall_quantity, total_cost_so_far,
                   total_filled_qty, total_filled_value, total_commission,
                   filled_order_details, last_order, polled, orders, ret,
                   on_filled_calls, on_filled_args, endReason, everReported,
                   overLimit, cancel_answer, submit_answer>>

CloseCancelForgotten ==
    /\ chase = "close" /\ pc \in {"cancelPartial", "cancelTimeout"}
    /\ Advance
    /\ UNCHANGED <<workflow_vars, inputs, current_limit_price_attempt,
                   chase_step, effective_max_chase_price,
                   remaining_overall_quantity, total_cost_so_far,
                   total_filled_qty, total_filled_value, total_commission,
                   filled_order_details, last_order, polled, orders,
                   everReported, overLimit, cancel_answer, submit_answer>>

\* cancel_order_by_id, after a partial fill (else branch) or in the
\* TimeoutError handler.  A live order is canceled; a terminal order answers
\* 422, which is ignored; any other failure is re-raised into the outer
\* "except Exception" and the function returns None.
CloseCancel ==
    /\ chase = "close" /\ pc \in {"cancelPartial", "cancelTimeout"}
    /\ \/ /\ Live(Cur)
          /\ orders' = [orders EXCEPT ![Cur].st = "canceled"]
          /\ cancel_answer' = "ok"
          /\ Advance
       \/ /\ ~Live(Cur)
          /\ cancel_answer' = "422"
          /\ UNCHANGED orders
          /\ Advance
       \/ /\ cancel_answer' = "error"
          /\ UNCHANGED <<orders, price_to_chase>>
          /\ Abort("cancel_error")
    /\ UNCHANGED <<workflow_vars, inputs, current_limit_price_attempt,
                   chase_step, effective_max_chase_price,
                   remaining_overall_quantity, total_cost_so_far,
                   total_filled_qty, total_filled_value, total_commission,
                   filled_order_details, last_order, polled, everReported,
                   overLimit, submit_answer>>

(***************************************************************************)
(* close_single_option_leg_order                                           *)
(***************************************************************************)
\* leave the loop (break, or the loop test fails) and return
LegFinish(reason, total, last) ==
    /\ ret' = LegResult(total, last)
    /\ endReason' = reason
    /\ pc' = "done"
    /\ UNCHANGED <<on_filled_calls, on_filled_args>>

\* client, quotes, position_intent, ladder and aggregator initialisation
LegStart ==
    /\ chase = "leg" /\ pc = "start"
    /\ LET g == get_single_option_quotes(client_ok, quotes)
       IN IF ~client_ok
          THEN /\ Abort("no_client")
               /\ UNCHANGED <<price_to_chase, chase_step,
                              effective_max_chase_price,
                              remaining_overall_quantity>>
          ELSE IF ~g.ok
          THEN /\ Abort("quotes")
               /\ UNCHANGED <<price_to_chase, chase_step,
                              effective_max_chase_price,
                              remaining_overall_quantity>>
          ELSE IF position_intent \notin {"SELL_TO_CLOSE", "BUY_TO_CLOSE"}
          THEN /\ Abort("precondition")
               /\ UNCHANGED <<price_to_chase, chase_step,
                              effective_max_chase_price,
                              remaining_overall_quantity>>
          ELSE /\ price_to_chase' = LegStartPrice(g, position_intent)
               /\ chase_step' = LegStep(g, position_intent)
               /\ effective_max_chase_price' = LegBound(g, position_intent)
               /\ remaining_overall_quantity' = original_intended_quantity
               /\ pc' = "loop"
               /\ UNCHANGED <<ret, on_filled_calls, on_filled_args,
                              endReason>>
    /\ UNCHANGED <<workflow_vars, inputs, current_limit_price_attempt,
                   total_cost_so_far, total_filled_qty, total_filled_value,
                   total_commission, filled_order_details, last_order, polled,
                   orders, everReported, overLimit, cancel_answer,
                   submit_answer>>

\* the loop test fails (nothing remains)
LegLoopExit ==
    /\ chase = "leg" /\ pc = "loop"
    /\ remaining_overall_quantity <= 0
    /\ LegFinish("done", total_filled_qty, last_order)
    /\ UNCHANGED <<workflow_vars, inputs, current_limit_price_attempt,
                   price_to_chase, chase_step, effective_max_chase_price,
                   remaining_overall_quantity, total_cost_so_far,
                   total_filled_qty, total_filled_value, total_commission,
                   filled_order_details, last_order, polled, orders,
                   everReported, overLimit, cancel_answer, submit_answer>>

\* one pass of the loop head: break when the rounded price crossed the
\* limit, else submit an order for all that remains; a submission the
\* gateway refuses is caught by the inner "except Exception", which breaks
LegSubmit ==
    /\ chase = "leg" /\ pc = "loop"
    /\ remaining_overall_quantity > 0
    /\ \E lp \in RoundCents(price_to_chase) :
         /\ current_limit_price_attempt' = lp
         /\ cancel_answer' = "none"
         /\ IF LegCrossed(lp, effective_max_chase_price, position_intent)
            THEN /\ LegFinish("exhausted", total_filled_qty, last_order)
                 /\ UNCHANGED <<orders, polled, submit_answer>>
            ELSE \/ /\ submit_answer' = Append(submit_answer, "ok")
                    /\ orders' = Append(orders,
                                   [qty |-> remaining_overall_quantity,
                                    lp |-> lp, filled |-> 0, st |-> "live",
                                    remAt |-> remaining_overall_quantity,
                                    costAt |-> total_cost_so_far,
                                    rec |-> 0, avg |-> 0, com |-> << >>])
                    /\ polled' = FALSE
                    /\ pc' = "wait"
                    /\ UNCHANGED <<ret, on_filled_calls, on_filled_args,
                                   endReason>>
                 \/ /\ submit_answer' = Append(submit_answer, "refused")
                    /\ LegFinish("submit_error", total_filled_qty, last_order)
                    /\ UNCHANGED <<orders, polled>>
    /\ UNCHANGED <<workflow_vars, inputs, price_to_chase, chase_step,
                   effective_max_chase_price, remaining_overall_quantity,
                   total_cost_so_far, total_filled_qty, total_filled_value,
                   total_commission, filled_order_details, last_order,
                   everReported, overLimit>>

\* wait_for_fill polls the order and sees no fill yet
LegPollEmpty ==
    /\ chase = "leg" /\ pc = "wait"
    /\ orders[Cur].filled = 0
    /\ polled' = TRUE
    /\ UNCHANGED <<workflow_vars, inputs, current_limit_price_attempt, pc,
                   price_to_chase, chase_step, effective_max_chase_price,
                   remaining_overall_quantity, total_cost_so_far,
                   total_filled_qty, total_filled_value, total_commission,
                   filled_order_details, last_order, orders, ret,
                   on_filled_calls, on_filled_args, endReason, everReported,
                   overLimit, cancel_answer, submit_answer>>

\* get_order_by_id raises: the inner "except Exception" breaks; the order is
\* not canceled
LegPollError ==
    /\ chase = "leg" /\ pc = "wait"
    /\ LegFinish("poll_error", total_filled_qty, last_order)
    /\ UNCHANGED <<workflow_vars, inputs, current_limit_price_attempt,
                   price_to_chase, chase_step, effective_max_chase_price,
                   remaining_overall_quantity, total_cost_so_far,
                   total_filled_qty, total_filled_value, total_commission,
                   filled_order_details, last_order, polled, orders,
                   everReported, overLimit, cancel_answer, submit_answer>>

\* wait_for_fill returns a snapshot with filled_qty > 0; the rung is
\* reconciled and the snapshot kept as last_order_details; then break (all
\* filled), cancel the remainder when the fill is smaller than what still
\* remains after it, or advance
LegPollFilled ==
    /\ chase = "leg" /\ pc = "wait"
    /\ orders[Cur].filled > 0
    /\ \E avg \in AvgChoices(orders[Cur].lp),
          c \in CommissionChoices(orders[Cur].filled) :
         LET f == orders[Cur].filled
             snap == [kind |-> "snapshot", id |-> Cur, qty |-> f,
                      value |-> avg * f, commission |-> commission_of(c)]
         IN /\ remaining_overall_quantity' = remaining_overall_quantity - f
            /\ total_filled_qty' = total_filled_qty + f
            /\ total_filled_value' = add_fill(total_filled_value, avg, f)
            /\ orders' = [orders EXCEPT ![Cur].rec = f, ![Cur].avg = avg,
                                        ![Cur].com = c]
            /\ last_order' = snap
            /\ everReported' = TRUE
            /\ overLimit' = (overLimit \/ avg > orders[Cur].lp)
            /\ IF remaining_overall_quantity - f <= 0
               THEN /\ LegFinish("done", total_filled_qty + f, snap)
                    /\ UNCHANGED price_to_chase
               ELSE IF /\ f < remaining_overall_quantity - f
                       /\ orders[Cur].st # "canceled"
               THEN /\ pc' = "cancelPartial"
                    /\ UNCHANGED <<price_to_chase, ret, on_filled_calls,
                                   on_filled_args, endReason>>
               ELSE Advance
    /\ UNCHANGED <<workflow_vars, inputs,
                   current_limit_price_attempt, chase_step,
                   effective_max_chase_price, total_cost_so_far,
                   total_commission, filled_order_details, polled,
                   cancel_answer, submit_answer>>

\* the deadline of wait_for_fill passes after a poll that saw no fill
LegTimeout ==
    /\ chase = "leg" /\ pc = "wait"
    /\ polled
    /\ pc' = "cancelTimeout"
    /\ UNCHANGED <<workflow_vars, inputs, current_limit_price_attempt,
                   price_to_chase, chase_step, effective_max_chase_price,
                   remaining_overall_quantity, total_cost_so_far,
                   total_filled_qty, total_filled_value, total_commission,
                   filled_order_details, last_order, polled, orders, ret,
                   on_filled_calls, on_filled_args, endReason, everReported,
                   overLimit, cancel_answer, submit_answer>>

\* cancel_order_by_id after a partial fill.  A live order is canceled; a
\* terminal order answers 422, which is ignored; any other failure is
\* re-raised into the inner "except Exception", which breaks.
LegCancelPartial ==
    /\ chase = "leg" /\ pc = "cancelPartial"
    /\ \/ /\ Live(Cur)
          /\ orders' = [orders EXCEPT ![Cur].st = "canceled"]
          /\ cancel_answer' = "ok"
          /\ Advance
       \/ /\ ~Live(Cur)
          /\ cancel_answer' = "422"
          /\ UNCHANGED orders
          /\ Advance
       \/ /\ cancel_answer' = "error"
          /\ UNCHANGED <<orders, price_to_chase>>
          /\ LegFinish("cancel_break", total_filled_qty, last_order)
    /\ UNCHANGED <<workflow_vars, inputs, current_limit_price_attempt,
                   chase_step, effective_max_chase_price,
                   remaining_overall_quantity, total_cost_so_far,
                   total_filled_qty, total_filled_value, total_commission,
                   filled_order_details, last_order, polled, everReported,
                   overLimit, submit_answer>>

\* cancel_order_by_id in the TimeoutError handler.  A failure other than
\* 422 is re-raised out of the handler into the outer "except Exception":
\* the function returns None.
LegCancelTimeout ==
    /\ chase = "leg" /\ pc = "cancelTimeout"
    /\ \/ /\ Live(Cur)
          /\ orders' = [orders EXCEPT ![Cur].st = "canceled"]
          /\ cancel_answer' = "ok"
          /\ Advance
       \/ /\ ~Live(Cur)
          /\ cancel_answer' = "422"
          /\ UNCHANGED orders
          /\ Advance
       \/ /\ cancel_answer' = "error"
          /\ UNCHANGED <<orders, price_to_chase>>
          /\ Abort("cancel_error")
    /\ UNCHANGED <<workflow_vars, inputs, current_limit_price_attempt,
                   chase_step, effective_max_chase_price,
                   remaining_overall_quantity, total_cost_so_far,
                   total_filled_qty, total_filled_value, total_commission,
                   filled_order_details, last_order, polled, everReported,
                   overLimit, submit_answer>>

NextLeg ==
    \/ LegStart
    \/ LegLoopExit
    \/ LegSubmit
    \/ LegPollEmpty
    \/ LegPollError
    \/ LegPollFilled
    \/ LegTimeout
    \/ LegCancelPartial
    \/ LegCancelTimeout

NextClose ==
    \/ CloseStart
    \/ CloseLoopExit
    \/ CloseSubmit
    \/ ClosePollEmpty
    \/ ClosePollError
    \/ ClosePollFilled
    \/ CloseTimeout
    \/ CloseCancel

NextOpen ==
    \/ OpenStart
    \/ OpenLoopExit
    \/ OpenSubmit
    \/ OpenPollEmpty
    \/ OpenPollError
    \/ OpenPollFilled
    \/ OpenTimeout
    \/ OpenCancelPartial
    \/ OpenCancelTimeout

Next ==
    \/ NextOpen
    \/ NextClose
    \/ NextLeg
    \/ BrokerFill
    \/ BrokerEnd

Spec == Init /\ [][Next]_vars

(***************************************************************************)
(* wait_for_fill and monitor_fill_async, as run by a notifier thread.      *)
(* notifier[t] is the thread started for trade notifier[t].trade:          *)
(*   order    << >> when the order handed over is None, else <<id>>        *)
(*   gw       the filled_qty the gateway reports for that order (<< >> is  *)
(*            None); the order is terminal, so the report does not change  *)
(*   gw_avg   the filled_avg_price the gateway reports for that order      *)
(*   st       "started" | "waiting" | "got" | "finished" | "crashed"       *)
(*   polls    polls that saw no fill in the wait_for_fill in progress      *)
(*   outcome  how wait_for_fill ended: "returned" | "timeout" | "error"    *)
(*   snapshot the order wait_for_fill returned, as                         *)
(*            <<filled_qty, filled_avg_price>>                             *)
(*   calls    invocations of on_filled                                     *)
(***************************************************************************)
\* float(getattr(ord, 'filled_qty', 0) or 0)
filled_qty_of(raw) == IF raw = << >> THEN 0 ELSE raw[1]

accepts_any_report(raw) == filled_qty_of(raw) >= 0

\* wait_for_fill returns the order polled when its filled quantity is > 0
accepts(raw) == filled_qty_of(raw) > 0

\* the thread object of monitor_fill_async for the value order of trade tr
NewNotifier(tr, order, gw, avg) ==
    [trade |-> tr, order |-> order, gw |-> gw, gw_avg |-> avg,
     st |-> "started", polls |-> 0, outcome |-> "none", snapshot |-> << >>,
     calls |-> 0]

\* the thread has ended: join returns
Finished(t) == notifier[t].st \in {"finished", "crashed"}

Alive == {t \in 1..Len(notifier) : ~Finished(t)}

NotifierBeginRaisesInCaller(t) ==
    /\ notifier[t].st = "started"
    /\ notifier' = [notifier EXCEPT
                      ![t].st = IF notifier[t].order = << >>
                                THEN "crashed" ELSE "waiting"]
    /\ run_pc' = IF notifier[t].order = << >> THEN "raised" ELSE run_pc
    /\ UNCHANGED <<chase_vars, run_inputs, trade_i, join_i,
                   trade_monitor_threads, trade_fill_queue, executed,
                   put_log>>

\* _poll evaluates order.id.  For None it raises AttributeError inside the
\* try; the handler's print evaluates order.id again and raises out of
\* _poll: the thread ends with an exception of its own.
NotifierBegin(t) ==
    /\ notifier[t].st = "started"
    /\ notifier' = [notifier EXCEPT
                      ![t].st = IF notifier[t].order = << >>
                                THEN "crashed" ELSE "waiting"]
    /\ UNCHANGED <<chase_vars, run_inputs, run_pc, trade_i, join_i,
                   trade_monitor_threads, trade_fill_queue, executed,
                   put_log>>

\* one pass of the loop of wait_for_fill before the deadline: the order is
\* returned when its filled quantity is accepted, else sleep(interval)
WaitPoll(t) ==
    /\ notifier[t].st = "waiting"
    /\ notifier[t].polls < MaxPolls
    /\ notifier' =
          IF accepts(notifier[t].gw)
          THEN [notifier EXCEPT
                  ![t].st = "got",
                  ![t].polls = 0,
                  ![t].outcome = "returned",
                  ![t].snapshot = <<filled_qty_of(notifier[t].gw),
                                    notifier[t].gw_avg>>]
          ELSE [notifier EXCEPT ![t].polls = @ + 1]
    /\ UNCHANGED <<chase_vars, run_inputs, run_pc, trade_i, join_i,
                   trade_monitor_threads, trade_fill_queue, executed,
                   put_log>>

\* get_order_by_id raises: wait_for_fill raises, _poll prints
WaitPollError(t) ==
    /\ notifier[t].st = "waiting"
    /\ notifier[t].polls < MaxPolls
    /\ notifier' = [notifier EXCEPT ![t].st = "finished",
                                    ![t].polls = 0,
                                    ![t].outcome = "error"]
    /\ UNCHANGED <<chase_vars, run_inputs, run_pc, trade_i, join_i,
                   trade_monitor_threads, trade_fill_queue, executed,
                   put_log>>

WaitTimeoutNotifies(t) ==
    /\ notifier[t].st = "waiting"
    /\ notifier[t].polls >= 1
    /\ notifier' = [notifier EXCEPT ![t].st = "got",
                                    ![t].polls = 0,
                                    ![t].snapshot = <<0, 0>>,
                                    ![t].outcome = "timeout"]
    /\ UNCHANGED <<chase_vars, run_inputs, run_pc, trade_i, join_i,
                   trade_monitor_threads, trade_fill_queue, executed,
                   put_log>>

\* the deadline has passed at the loop test, after a poll and its sleep:
\* wait_for_fill raises TimeoutError, _poll prints
WaitTimeout(t) ==
    /\ notifier[t].st = "waiting"
    /\ notifier[t].polls >= 1
    /\ notifier' = [notifier EXCEPT ![t].st = "finished",
                                    ![t].polls = 0,
                                    ![t].outcome = "timeout"]
    /\ UNCHANGED <<chase_vars, run_inputs, run_pc, trade_i, join_i,
                   trade_monitor_threads, trade_fill_queue, executed,
                   put_log>>

NotifierCallbackLateBinding(t) ==
    /\ notifier[t].st = "got"
    /\ notifier' = [notifier EXCEPT ![t].st = "finished",
                                    ![t].calls = @ + 1]
    /\ LET a == [func |-> "update_trade",
                 trade |-> Min(trade_i - 1, Len(open_trades)),
                 price |-> notifier[t].snapshot[2]]
       IN /\ trade_fill_queue' = Append(trade_fill_queue, a)
          /\ put_log' = Append(put_log, a)
    /\ UNCHANGED <<chase_vars, run_inputs, run_pc, trade_i, join_i,
                   trade_monitor_threads, executed>>

\* on_filled(filled) with _on_close_filled: it puts (update_trade, data) on
\* the queue, data naming the trade the callback was defined for (t=trade)
\* and, as Close Price, the filled_avg_price of the order it is given.  The
\* callback reads keys of the trade that the loop body has read before and
\* attributes with defaults: it does not raise.
NotifierCallback(t) ==
    /\ notifier[t].st = "got"
    /\ notifier' = [notifier EXCEPT ![t].st = "finished",
                                    ![t].calls = @ + 1]
    /\ LET a == [func |-> "update_trade", trade |-> notifier[t].trade,
                 price |-> notifier[t].snapshot[2]]
       IN /\ trade_fill_queue' = Append(trade_fill_queue, a)
          /\ put_log' = Append(put_log, a)
    /\ UNCHANGED <<chase_vars, run_inputs, run_pc, trade_i, join_i,
                   trade_monitor_threads, executed>>

NotifierStep(t) ==
    \/ NotifierBegin(t)
    \/ WaitPoll(t)
    \/ WaitPollError(t)
    \/ WaitTimeout(t)
    \/ NotifierCallback(t)

NextNotifier == \E t \in 1..Len(notifier) : NotifierStep(t)

(***************************************************************************)
(* run_trade_workflow                                                      *)
(***************************************************************************)
\* What close_calendar_spread_order hands back for a trade of the given
\* Size: None, or an object whose id names the last order of the chase, for
\* which the gateway reports some filled quantity (more than zero when the
\* chase returned that order's snapshot).  The price the gateway reports is
\* 0 (None) for an order without fill and one cent otherwise.
CloseOutcomes(size) ==
    {[order |-> << >>, gw |-> << >>, avg |-> 0]}
        \cup {[order |-> <<1>>, gw |-> g,
               avg |-> IF filled_qty_of(g) > 0 THEN 1 ELSE 0] :
                 g \in {<< >>} \cup {<<n>> : n \in 0..size}}

\* the lists of open trades get_open_trades may answer, as the Size of
\* each trade.  The run only hands Size to close_calendar_spread_order, so
\* every trade is given the largest Size and the quantity the gateway
\* reports ranges from nothing to all of it.
SizeLists ==
    {[i \in 1..n |-> MaxSize] : n \in 0..MaxTrades}

\* reset of the thread list and the queue; without client, or with the
\* market closed, the run returns 1; else the open trades are fetched
RunStart ==
    /\ run_pc = "start"
    /\ trade_monitor_threads' = << >>
    /\ trade_fill_queue' = << >>
    /\ \/ /\ run_pc' = "returned"
          /\ UNCHANGED <<trade_i, open_trades>>
       \/ /\ run_pc' = "closing"
          /\ trade_i' = 1
          /\ open_trades' \in SizeLists
    /\ UNCHANGED <<chase_vars, todays_earnings, join_i, notifier, executed,
                   put_log>>

\* one pass of the loop over open_trades: the trade is not due, or the body
\* raises before the chase and the handler prints, or the trade is closed
\* and a notifier is started for what close_calendar_spread_order returned
CloseTrade ==
    /\ run_pc = "closing"
    /\ trade_i <= Len(open_trades)
    /\ trade_i' = trade_i + 1
    /\ \/ UNCHANGED <<notifier, trade_monitor_threads>>
       \/ \E o \in CloseOutcomes(open_trades[trade_i]) :
            /\ notifier' = Append(notifier,
                                  NewNotifier(trade_i, o.order, o.gw, o.avg))
            /\ trade_monitor_threads' =
                   Append(trade_monitor_threads, Len(notifier) + 1)
    /\ UNCHANGED <<chase_vars, run_inputs, run_pc, join_i, trade_fill_queue,
                   executed, put_log>>

\* the loop over open_trades is over
CloseLoopEnd ==
    /\ run_pc = "closing"
    /\ trade_i > Len(open_trades)
    /\ run_pc' = "join"
    /\ join_i' = 1
    /\ UNCHANGED <<chase_vars, run_inputs, trade_i, trade_monitor_threads,
                   notifier, trade_fill_queue, executed, put_log>>

JoinWithoutWaiting ==
    /\ run_pc \in {"join", "final_join"}
    /\ IF join_i <= Len(trade_monitor_threads)
       THEN /\ join_i' = join_i + 1
            /\ UNCHANGED run_pc
       ELSE /\ run_pc' = IF run_pc = "join" THEN "drain" ELSE "final_drain"
            /\ UNCHANGED join_i
    /\ UNCHANGED <<chase_vars, run_inputs, trade_i, trade_monitor_threads,
                   notifier, trade_fill_queue, executed, put_log>>

\* "for th in trade_monitor_threads: th.join()": join returns once the
\* thread has ended; after the last one the queue is drained
Join ==
    /\ run_pc \in {"join", "final_join"}
    /\ IF join_i <= Len(trade_monitor_threads)
       THEN /\ Finished(trade_monitor_threads[join_i])
            /\ join_i' = join_i + 1
            /\ UNCHANGED run_pc
       ELSE /\ run_pc' = IF run_pc = "join" THEN "drain" ELSE "final_drain"
            /\ UNCHANGED join_i
    /\ UNCHANGED <<chase_vars, run_inputs, trade_i, trade_monitor_threads,
                   notifier, trade_fill_queue, executed, put_log>>

\* "while not trade_fill_queue.empty(): func, pdata = get(); func(pdata)";
\* executed records whether a notifier thread was alive at that moment
Drain ==
    /\ run_pc \in {"drain", "final_drain"}
    /\ trade_fill_queue # << >>
    /\ trade_fill_queue' = Tail(trade_fill_queue)
    /\ executed' = Append(executed,
                          [func |-> Head(trade_fill_queue).func,
                           trade |-> Head(trade_fill_queue).trade,
                           price |-> Head(trade_fill_queue).price,
                           alive |-> Alive # {}])
    /\ UNCHANGED <<chase_vars, run_inputs, run_pc, trade_i, join_i,
                   trade_monitor_threads, notifier, put_log>>

\* the queue is empty after the close phase: the thread list is cleared.
\* A morning run returns, and so does a run without portfolio value; a run
\* to which get_tomorrows_earnings gave symbols raises at line 337, where a
\* symbol (a string) is indexed with 'act_symbol'; else the candidates of
\* get_todays_earnings are gone through
DrainEnd ==
    /\ run_pc = "drain"
    /\ trade_fill_queue = << >>
    /\ trade_monitor_threads' = << >>
    /\ \/ /\ run_pc' = "returned"
          /\ UNCHANGED <<trade_i, todays_earnings>>
       \/ /\ run_pc' = "raised"
          /\ UNCHANGED <<trade_i, todays_earnings>>
       \/ /\ run_pc' = "opening"
          /\ trade_i' = 1
          /\ todays_earnings' \in 0..MaxCandidates
    /\ UNCHANGED <<chase_vars, open_trades, join_i, notifier,
                   trade_fill_queue, executed, put_log>>

\* one pass of the loop over todays_earnings: the candidate is skipped or
\* its body raises and the handler prints, or place_calendar_spread_order
\* runs and, when it returns a summary, has called _on_open_amc_filled,
\* which puts (post_trade, data) on the queue
OpenCandidate ==
    /\ run_pc = "opening"
    /\ trade_i <= todays_earnings
    /\ trade_i' = trade_i + 1
    /\ \/ UNCHANGED <<trade_fill_queue, put_log>>
       \/ LET a == [func |-> "post_trade", trade |-> trade_i, price |-> 0]
          IN /\ trade_fill_queue' = Append(trade_fill_queue, a)
             /\ put_log' = Append(put_log, a)
    /\ UNCHANGED <<chase_vars, run_inputs, run_pc, join_i,
                   trade_monitor_threads, notifier, executed>>

\* the loop over todays_earnings is over
OpenLoopEnd ==
    /\ run_pc = "opening"
    /\ trade_i > todays_earnings
    /\ run_pc' = "final_join"
    /\ join_i' = 1
    /\ UNCHANGED <<chase_vars, run_inputs, trade_i, trade_monitor_threads,
                   notifier, trade_fill_queue, executed, put_log>>

\* the queue is empty after the open phase: run_trade_workflow returns
FinalDrainEnd ==
    /\ run_pc = "final_drain"
    /\ trade_fill_queue = << >>
    /\ run_pc' = "returned"
    /\ UNCHANGED <<chase_vars, run_inputs, trade_i, join_i,
                   trade_monitor_threads, notifier, trade_fill_queue,
                   executed, put_log>>

NextRun ==
    \/ RunStart
    \/ CloseTrade
    \/ CloseLoopEnd
    \/ Join
    \/ Drain
    \/ DrainEnd
    \/ OpenCandidate
    \/ OpenLoopEnd
    \/ FinalDrainEnd

\* No chase is modelled step by step during a run of the workflow.
ChaseIdle ==
    /\ chase = "none" /\ client_ok = TRUE
    /\ quotes = [s |-> NoQuote, l |-> NoQuote]
    /\ original_intended_quantity = 0
    /\ max_total_cost_allowed = << >>
    /\ limit_price = << >> /\ target_debit_price = << >>
    /\ position_intent = "none"
    /\ pc = "idle"
    /\ price_to_chase = 0 /\ chase_step = 0
    /\ effective_max_chase_price = 0 /\ current_limit_price_attempt = 0
    /\ remaining_overall_quantity = 0 /\ total_cost_so_far = 0
    /\ total_filled_qty = 0 /\ total_filled_value = 0
    /\ total_commission = 0
    /\ filled_order_details = 0
    /\ last_order = Absent
    /\ polled = FALSE
    /\ orders = << >>
    /\ ret = Absent
    /\ on_filled_calls = 0
    /\ on_filled_args = << >>
    /\ endReason = "running"
    /\ everReported = FALSE
    /\ overLimit = FALSE
    /\ cancel_answer = "none"
    /\ submit_answer = << >>

WorkflowInit ==
    /\ ChaseIdle
    /\ run_pc = "start"
    /\ open_trades = << >>
    /\ todays_earnings = 0
    /\ trade_i = 0 /\ join_i = 0
    /\ trade_monitor_threads = << >>
    /\ notifier = << >>
    /\ trade_fill_queue = << >>
    /\ executed = << >>
    /\ put_log = << >>

WorkflowNext == NextRun \/ NextNotifier

\* A thread that can take a step eventually takes one, and so does the
\* main thread.
Workflow ==
    /\ WorkflowInit
    /\ [][WorkflowNext]_vars
    /\ WF_vars(NextRun)
    /\ \A t \in 1..MaxTrades : WF_vars(t <= Len(notifier) /\ NotifierStep(t))

(***************************************************************************)
(* One due trade closed by run_trade_workflow, with the chase of           *)
(* close_calendar_spread_order run step by step against the gateway, its   *)
(* result handed to monitor_fill_async, and the rest of the closing phase  *)
(* of the run (specification Closing).                                     *)
(***************************************************************************)
\* the order object handed to monitor_fill_async: None, or an object whose
\* id is that of an order of the chase
HandedOrder(r) == IF r.kind = "none" THEN << >> ELSE <<r.id>>

\* the filled_qty get_order_by_id reports for that id
GatewayQty(r) == IF r.kind = "none" THEN << >> ELSE <<orders[r.id].filled>>

\* the filled_avg_price get_order_by_id reports for that id: None (0) for
\* an order without fill, the average the chase was given when the order
\* has not filled further since, else some average near its limit
GatewayAvgs(r) ==
    IF r.kind = "none" THEN {0}
    ELSE IF orders[r.id].filled = 0 THEN {0}
    ELSE IF orders[r.id].filled = orders[r.id].rec THEN {orders[r.id].avg}
    ELSE AvgChoices(orders[r.id].lp)

\* The quote source's answers of this specification: one with a ladder of
\* three rungs, and one without a quote for the short leg.
ClosingQuotes ==
    { [s |-> Leg(1, 3), l |-> Leg(2, 5)],
      [s |-> NoQuote, l |-> Leg(2, 5)] }

\* run_trade_workflow is in the pass of its closing loop for the only open
\* trade, which is due, and calls close_calendar_spread_order with its Size
ClosingInit ==
    /\ chase = "close"
    /\ client_ok \in BOOLEAN
    /\ quotes \in ClosingQuotes
    /\ position_intent = "none"
    /\ original_intended_quantity \in 1..MaxQty
    /\ max_total_cost_allowed = << >>
    /\ limit_price = << >> /\ target_debit_price = << >>
    /\ pc = "start"
    /\ price_to_chase = 0 /\ chase_step = 0
    /\ effective_max_chase_price = 0 /\ current_limit_price_attempt = 0
    /\ remaining_overall_quantity = 0 /\ total_cost_so_far = 0
    /\ total_filled_qty = 0 /\ total_filled_value = 0
    /\ total_commission = 0
    /\ filled_order_details = 0
    /\ last_order = Absent
    /\ polled = FALSE
    /\ orders = << >>
    /\ ret = Absent
    /\ on_filled_calls = 0
    /\ on_filled_args = << >>
    /\ endReason = "running"
    /\ everReported = FALSE
    /\ overLimit = FALSE
    /\ cancel_answer = "none"
    /\ submit_answer = << >>
    /\ run_pc = "closing"
    /\ open_trades = <<original_intended_quantity>>
    /\ todays_earnings = 0
    /\ trade_i = 1 /\ join_i = 0
    /\ trade_monitor_threads = << >>
    /\ notifier = << >>
    /\ trade_fill_queue = << >>
    /\ executed = << >>
    /\ put_log = << >>

MonitorCloseUnjoined ==
    /\ run_pc = "closing"
    /\ trade_i <= Len(open_trades)
    /\ chase = "close" /\ pc = "done"
    /\ \E avg \in GatewayAvgs(ret) :
          notifier' = Append(notifier,
                             NewNotifier(trade_i, HandedOrder(ret),
                                         GatewayQty(ret), avg))
    /\ trade_i' = trade_i + 1
    /\ UNCHANGED <<chase_vars, run_inputs, run_pc, join_i, trade_fill_queue,
                   trade_monitor_threads, executed, put_log>>

\* the chase has returned: monitor_fill_async starts a notifier for what it
\* returned, the thread is appended to trade_monitor_threads, and the pass
\* of the loop is over
MonitorClose ==
    /\ run_pc = "closing"
    /\ trade_i <= Len(open_trades)
    /\ chase = "close" /\ pc = "done"
    /\ \E avg \in GatewayAvgs(ret) :
          notifier' = Append(notifier,
                             NewNotifier(trade_i, HandedOrder(ret),
                                         GatewayQty(ret), avg))
    /\ trade_monitor_threads' =
           Append(trade_monitor_threads, Len(notifier) + 1)
    /\ trade_i' = trade_i + 1
    /\ UNCHANGED <<chase_vars, run_inputs, run_pc, join_i, trade_fill_queue,
                   executed, put_log>>

\* the steps of run_trade_workflow itself, the chase it calls included,
\* up to the end of its closing phase
ClosingMain ==
    \/ NextClose
    \/ MonitorClose
    \/ CloseLoopEnd
    \/ Join
    \/ Drain
    \/ DrainEnd

ClosingNext ==
    \/ ClosingMain
    \/ NextNotifier
    \/ BrokerFill
    \/ BrokerEnd

\* The main thread and the notifier thread each take a step when they can.
Closing ==
    /\ ClosingInit
    /\ [][ClosingNext]_vars
    /\ WF_vars(ClosingMain)
    /\ WF_vars(1 <= Len(notifier) /\ NotifierStep(1))

(***************************************************************************)
(* place_calendar_spread_order called with and without its arguments       *)
(* limit_price and target_debit_price (specification Targeted).            *)
(***************************************************************************)
\* the quotes of the calls: a ladder of two rungs, 1.5 and 4 cents, bounded
\* by the long ask of 5 cents; or no quote for the short leg
TargetedQuotes ==
    { [s |-> Leg(1, 3), l |-> Leg(2, 5)],
      [s |-> NoQuote, l |-> Leg(2, 5)] }

\* limit_price as the workflow passes it: None, or the mid of the spread
LimitPrices == {<< >>, <<3>>}

\* target_debit_price: None, or a cost of one cent, below the whole ladder
TargetPrices == {<< >>, <<2>>}

TargetedInit ==
    /\ WorkflowIdle
    /\ chase = "open"
    /\ client_ok \in BOOLEAN
    /\ quotes \in TargetedQuotes
    /\ position_intent = "none"
    /\ original_intended_quantity \in 1..MaxQty
    /\ max_total_cost_allowed \in {<< >>, <<MaxCeil>>}
    /\ limit_price \in LimitPrices
    /\ target_debit_price \in TargetPrices
    /\ pc = "start"
    /\ price_to_chase = 0 /\ chase_step = 0
    /\ effective_max_chase_price = 0 /\ current_limit_price_attempt = 0
    /\ remaining_overall_quantity = 0 /\ total_cost_so_far = 0
    /\ total_filled_qty = 0 /\ total_filled_value = 0
    /\ total_commission = 0
    /\ filled_order_details = 0
    /\ last_order = Absent
    /\ polled = FALSE
    /\ orders = << >>
    /\ ret = Absent
    /\ on_filled_calls = 0
    /\ on_filled_args = << >>
    /\ endReason = "running"
    /\ everReported = FALSE
    /\ overLimit = FALSE
    /\ cancel_answer = "none"
    /\ submit_answer = << >>

TargetedNext == NextOpen \/ BrokerFill \/ BrokerEnd

Targeted == TargetedInit /\ [][TargetedNext]_vars

(***************************************************************************)
(* Properties.                                                             *)
(***************************************************************************)
Ended == pc = "done"

\* The chase entered its loop (it got past the quantity check and the quotes).
LoopEntered ==
    \/ pc \notin {"start", "done"}
    \/ endReason \notin {"running", "no_client", "precondition", "quotes"}

\* C1: in both chases the cumulative filled quantity, and the filled quantity
\* of the value returned, never exceed the requested quantity (the broker of
\* this model never reports more than the quantity of the order polled).
C1_NeverOverFills ==
    /\ total_filled_qty <= original_intended_quantity
    /\ ret.qty <= original_intended_quantity

\* C1 witness: a chase that filled the whole requested quantity over two
\* or more orders has returned.
C1_Witness ==
    /\ Ended
    /\ original_intended_quantity = MaxQty
    /\ total_filled_qty = original_intended_quantity
    /\ ret.qty = original_intended_quantity
    /\ Len(orders) >= 2

\* C2: in the open chase at most one order is non-terminal at the broker at
\* any instant.
C2_OpenOneLiveOrder ==
    chase = "open" => Cardinality(LiveOrders) <= 1

\* C3: in the close chase every earlier order is terminal before the next
\* one is submitted, so at most one order is live at any instant.
C3_CloseOneLiveOrder ==
    chase = "close" =>
        /\ Cardinality(LiveOrders) <= 1
        /\ (pc = "loop" => LiveOrders = {})
        /\ \A i \in 1..Len(orders) : Live(i) => i = Cur

\* C3 witness: a close chase submitted a second order after the first one
\* was partially filled and its remainder canceled.
C3_Witness ==
    /\ chase = "close"
    /\ Len(orders) >= 2
    /\ orders[1].filled > 0
    /\ orders[1].filled < orders[1].qty
    /\ orders[1].st = "canceled"
    /\ Live(2)

\* C4: with a ceiling set, and while every reported average price was at
\* most the limit of its order, total_cost_so_far never exceeds the ceiling.
C4_CostWithinCeiling ==
    (chase = "open" /\ max_total_cost_allowed # << >> /\ ~overLimit) =>
        total_cost_so_far <= max_total_cost_allowed[1]

\* C4 witness: the ceiling cut an order below the quantity wanted, and
\* fills at or below the limit then used the whole (positive) ceiling while
\* quantity was still wanted.
C4_Witness ==
    /\ chase = "open"
    /\ max_total_cost_allowed # << >>
    /\ ~overLimit
    /\ max_total_cost_allowed[1] > 0
    /\ total_cost_so_far = max_total_cost_allowed[1]
    /\ remaining_overall_quantity > 0
    /\ \E i \in 1..Len(orders) : orders[i].qty < orders[i].remAt

\* The quantity the open chase is to order at limit lp with rem contracts
\* wanted and cost dollars spent: min(rem, affordable), where affordable is
\* floor(remaining_budget / lp) for a positive limit and, for a limit that
\* is zero or negative, everything wanted unless the budget is overdrawn.
RungQty(rem, cost, lp) ==
    IF max_total_cost_allowed = << >> THEN rem
    ELSE IF lp > 0 THEN Min(rem, FloorDiv(max_total_cost_allowed[1] - cost, lp))
    ELSE IF max_total_cost_allowed[1] - cost >= 0 THEN rem
    ELSE 0

\* The same, with floor(remaining_budget / lp) at every limit but zero.
RungQtyFloorOnly(rem, cost, lp) ==
    IF max_total_cost_allowed = << >> THEN rem
    ELSE IF lp > 0 THEN Min(rem, FloorDiv(max_total_cost_allowed[1] - cost, lp))
    ELSE IF lp < 0
         THEN Min(rem, FloorDiv(cost - max_total_cost_allowed[1], -lp))
    ELSE rem

\* C5 (as amended): every order of the open chase has the quantity
\* RungQty of its rung, which is at least 1; and the Unaffordable stop is
\* taken at a rung where RungQty is below 1 and ends the chase.
C5_RungQuantity ==
    chase = "open" =>
        /\ \A i \in 1..Len(orders) :
              /\ orders[i].qty = RungQty(orders[i].remAt, orders[i].costAt,
                                         orders[i].lp)
              /\ orders[i].qty >= 1
        /\ (endReason = "unaffordable" =>
              /\ Ended
              /\ RungQty(remaining_overall_quantity, total_cost_so_far,
                         current_limit_price_attempt) < 1)

\* C5 witness: the ceiling cut an order below the quantity wanted, and a
\* later rung stopped the chase as unaffordable.
C5_Witness ==
    /\ chase = "open"
    /\ endReason = "unaffordable"
    /\ \E i \in 1..Len(orders) : orders[i].qty < orders[i].remAt

\* C5 as stated: the quantity is min(remaining, floor(budget / limit))
\* whenever a ceiling is set.
C5_FloorAtEveryLimit ==
    chase = "open" =>
        \A i \in 1..Len(orders) :
            orders[i].qty = RungQtyFloorOnly(orders[i].remAt, orders[i].costAt,
                                             orders[i].lp)

\* C6: an open chase in which no poll reported a fill returns None and does
\* not invoke on_filled.
C6_OpenNoFillIsAbsent ==
    (chase = "open" /\ ~everReported) =>
        /\ on_filled_calls = 0
        /\ (Ended => ret = Absent)

\* C6 witness: an open chase ran out of ladder after two or more orders,
\* none of which reported a fill.
C6_Witness ==
    /\ chase = "open"
    /\ Ended
    /\ ~everReported
    /\ endReason = "exhausted"
    /\ Len(orders) >= 2

C8_OpenFillIsReturned ==
    (chase = "open" /\ Ended /\ total_filled_qty > 0) =>
        /\ ret.kind = "summary"
        /\ ret.qty = total_filled_qty

\* The quote source has no quote for a leg, or no bid or no ask in it.
LacksPrice(q) ==
    \/ q.s = << >>
    \/ q.l = << >>
    \/ \E i \in 1..2 : q.s[i] = << >> \/ q.l[i] = << >>

\* C9: when the quote source lacks a bid or an ask of either leg, both
\* chases return None and submit no order.
C9_NoQuotesNoOrders ==
    (chase \in {"open", "close"} /\ LacksPrice(quotes)) =>
        /\ orders = << >>
        /\ (Ended => ret = Absent)

\* C9 witness: a chase for a positive quantity returned for want of quotes.
C9_Witness ==
    /\ Ended
    /\ chase \in {"open", "close"}
    /\ original_intended_quantity > 0
    /\ LacksPrice(quotes)
    /\ endReason = "quotes"

\* C10: an open chase without ceiling leaves its loop only as Done or as
\* Exhausted.
C10_NoCeilingDoneOrExhausted ==
    (chase = "open" /\ max_total_cost_allowed = << >> /\ Ended /\ LoopEntered) =>
        endReason \in {"done", "exhausted"}

\* The rungs of which the chase reconciled a fill.
FilledRungs == {i \in 1..Len(orders) : orders[i].rec > 0}

\* The value returned carries the aggregate of the chase.
ReturnsAggregate == Ended /\ ret.kind \in {"summary", "snapshot"}

\* C11 as stated: the quantity-weighted average price of a returned summary
\* (ret.value / ret.qty) lies between the least and the greatest limit price
\* of the rungs that filled.
C11_AvgWithinLimits ==
    ReturnsAggregate =>
        /\ \E i \in FilledRungs : orders[i].lp * ret.qty <= ret.value
        /\ \E i \in FilledRungs : ret.value <= orders[i].lp * ret.qty

\* C11 (as amended): the quantity-weighted average price of a returned
\* summary lies between the least and the greatest average fill price the
\* gateway reported for the rungs that filled; it is at most the greatest
\* limit price of those rungs when no reported average exceeded its limit.
C11_AvgWithinReportedPrices ==
    ReturnsAggregate =>
        /\ ret.qty > 0
        /\ \E i \in FilledRungs : orders[i].avg * ret.qty <= ret.value
        /\ \E i \in FilledRungs : ret.value <= orders[i].avg * ret.qty
        /\ (~overLimit =>
              \E i \in FilledRungs : ret.value <= orders[i].lp * ret.qty)

\* C11 witness: a summary over two filled rungs with different reported
\* averages, one of them better than the limit of its rung.
C11_Witness ==
    /\ ReturnsAggregate
    /\ ret.kind = "summary"
    /\ \E i, j \in FilledRungs :
          /\ orders[i].avg # orders[j].avg
          /\ orders[i].avg < orders[i].lp

\* A cancel request was answered in this step.
CancelStep == pc \in {"cancelPartial", "cancelTimeout"} /\ pc' # pc

\* What the chase has aggregated and what it is to return.
aggregate ==
    <<remaining_overall_quantity, total_cost_so_far, total_filled_qty,
      total_filled_value, filled_order_details, last_order, ret, endReason,
      on_filled_calls>>

\* C12: in the three chases a cancel request answered 422 (the order is
\* already terminal) is followed by the price advance and the next pass of
\* the loop, as a successful cancel is: the chase does not return there, and
\* what it has aggregated is kept.
C12_Cancel422Advances ==
    [][(CancelStep /\ cancel_answer' = "422") =>
          /\ pc' = "loop"
          /\ price_to_chase' = price_to_chase + chase_step
          /\ UNCHANGED aggregate]_vars

\* C12 witness: with fills aggregated on an earlier poll, the cancel of the
\* partly filled order was answered 422 and the chase is back at its loop
\* test.
C12_Witness ==
    /\ cancel_answer = "422"
    /\ pc = "loop"
    /\ total_filled_qty > 0
    /\ remaining_overall_quantity > 0

\* The gateway refused the submission made in this step.
SubmitRefused == submit_answer' = Append(submit_answer, "refused")

\* C13: in the open chase a submission the gateway refuses contributes no
\* fill, the ladder price advances by one step, and the chase is back at
\* its loop test for the next rung; it does not return there.
C13_OpenRefusalAdvances ==
    [][(chase = "open" /\ SubmitRefused) =>
          /\ pc' = "loop"
          /\ price_to_chase' = price_to_chase + chase_step
          /\ UNCHANGED <<orders, aggregate>>]_vars

\* C13 witness: an open chase with a fill aggregated had a later submission
\* refused, and quantity and ladder remain for the next rung.
C13_Witness ==
    /\ chase = "open"
    /\ submit_answer # << >>
    /\ submit_answer[Len(submit_answer)] = "refused"
    /\ pc = "loop"
    /\ total_filled_qty > 0
    /\ remaining_overall_quantity > 0
    /\ price_to_chase <= effective_max_chase_price

\* C14: in the close chase a submission the gateway refuses leaves the rung
\* unfilled, the price advances, and the chase is back at its loop test for
\* the next rung with the fills of earlier rungs kept.
C14_CloseRefusalAdvances ==
    [][(chase = "close" /\ SubmitRefused) =>
          /\ pc' = "loop"
          /\ price_to_chase' = price_to_chase + chase_step
          /\ UNCHANGED <<orders, aggregate>>]_vars

\* C15: in the open chase and the close chase a cancel request that fails
\* with an error other than 422 is followed by the price advance and the
\* next pass of the loop, with the fills aggregated so far kept for the
\* value returned at the end.
C15_CancelErrorAdvances ==
    [][(chase \in {"open", "close"} /\ CancelStep
            /\ cancel_answer' = "error") =>
          /\ pc' = "loop"
          /\ price_to_chase' = price_to_chase + chase_step
          /\ UNCHANGED aggregate]_vars

\* The ways a failure of the quote source or of the gateway ends a chase.
FailureReasons == {"quotes", "submit_error", "poll_error", "cancel_error"}

Notifiers == 1..Len(notifier)

\* wait_for_fill of thread t has ended without returning an order
EndedWithoutOrder(t) == notifier[t].outcome \in {"timeout", "error"}

C18_CallbackOnceAfterFill ==
    \A t \in Notifiers :
        /\ notifier[t].calls <= 1
        /\ (notifier[t].calls = 1 =>
              /\ notifier[t].outcome = "returned"
              /\ notifier[t].snapshot # << >>
              /\ notifier[t].snapshot[1] > 0)
        /\ (notifier[t].outcome \in {"timeout", "error"} =>
              notifier[t].calls = 0)
        /\ (notifier[t].st = "crashed" => notifier[t].calls = 0)

\* C18 witness: all notifiers have ended; one invoked on_filled, one timed
\* out without invoking it.
C18_Witness ==
    /\ Alive = {}
    /\ \E t \in Notifiers : notifier[t].calls = 1
    /\ \E t \in Notifiers :
          notifier[t].outcome = "timeout" /\ notifier[t].calls = 0

\* A step of the main thread that leaves run_trade_workflow by an exception.
MainRaises == run_pc # "raised" /\ run_pc' = "raised"

\* C19: a step of a notifier thread, failing or not, leaves the thread that
\* started it where it is (the failure is the notifier's own), and the
\* join loop over the notifiers always comes to its end.
C19_NotifierFailureContained ==
    /\ [][(\E t \in Notifiers : notifier'[t].st # notifier[t].st)
              => UNCHANGED <<run_pc, trade_i, join_i>>]_vars
    /\ (run_pc = "join") ~> (run_pc = "drain" /\ Alive = {})

\* C19 witness: the join loop is over although one notifier ended by an
\* exception of its own (its order was None) and another by a failed poll.
C19_Witness ==
    /\ run_pc = "drain"
    /\ \E t \in Notifiers : notifier[t].st = "crashed"
    /\ \E t \in Notifiers : notifier[t].outcome = "error"

\* the persistence actions of a log, without the ghost field
Actions(log) ==
    [i \in 1..Len(log) |->
        [func |-> log[i].func, trade |-> log[i].trade,
         price |-> log[i].price]]

\* C20: a persistence action is executed only when no notifier thread is
\* alive (all have been joined), and the actions executed, followed by
\* those still queued, are the actions put, each once and in order; when
\* the run is over every action put has been executed.
C20_WritesAfterJoinExactlyOnce ==
    /\ \A i \in 1..Len(executed) : ~executed[i].alive
    /\ (run_pc # "start" =>
          Actions(executed) \o trade_fill_queue = put_log)
    /\ (run_pc \in {"returned", "raised"} => Actions(executed) = put_log)
    /\ (run_pc \in {"drain", "final_drain"} => Alive = {})

\* C20 witness: a run has returned after executing the updates of two
\* notifiers and the post of a candidate opened afterwards.
C20_Witness ==
    /\ run_pc = "returned"
    /\ Len(executed) >= 3
    /\ \E i, j \in 1..Len(executed) :
          /\ executed[i].func = "update_trade"
          /\ executed[j].func = "update_trade"
          /\ executed[i].trade # executed[j].trade
    /\ \E i \in 1..Len(executed) : executed[i].func = "post_trade"

Submits == submit_answer' # submit_answer

\* The four prices quoted, in cents (meaningful when both legs are quoted).
Quoted == get_spread_quotes(quotes)

\* C22: in an open chase the n-th call of submit_order is made at the
\* ladder price mid + (n - 1) * step, where mid is (long_bid + long_ask) / 2
\* - (short_bid + short_ask) / 2 and step is half the sum of the two
\* bid-ask widths but at least one cent; its limit price is that ladder
\* price rounded to cents; and the ladder price is not above long_ask.
\* (Ladder prices are in half-cents.)
C22_OpenLadder ==
    [][(chase = "open" /\ Submits) =>
          LET n == Len(submit_answer)
              mid2 == (Quoted.lb + Quoted.la) - (Quoted.sb + Quoted.sa)
              w2 == (Quoted.sa - Quoted.sb) + (Quoted.la - Quoted.lb)
              step2 == IF w2 >= 2 THEN w2 ELSE 2
              lp2 == 2 * current_limit_price_attempt'
          IN /\ price_to_chase = mid2 + n * step2
             /\ lp2 - price_to_chase \in {-1, 0, 1}
             /\ (price_to_chase % 2 = 0 => lp2 = price_to_chase)
             /\ price_to_chase <= 2 * Quoted.la]_vars

\* C22 witness: an open chase has submitted its third order, each at a
\* higher limit than the one before, the first at the mid cost rounded
\* from half a cent.
C22_Witness ==
    /\ chase = "open" /\ Len(orders) = 3
    /\ 2 * orders[1].lp - 1 = (Quoted.lb + Quoted.la) - (Quoted.sb + Quoted.sa)
    /\ orders[1].lp < orders[2].lp /\ orders[2].lp < orders[3].lp

\* C23: in a close chase the n-th call of submit_order is made at the
\* ladder price -(long_ask - short_bid) + (n - 1) * step, with step half
\* the sum of the two bid-ask widths but at least one cent, so the ladder
\* only rises; the ladder price is not above short_ask; and the limit
\* submitted, the ladder price rounded to cents, lies between
\* -(long_ask - short_bid) and short_ask.
C23_CloseLadder ==
    [][(chase = "close" /\ Submits) =>
          LET n == Len(submit_answer)
              start == -(Quoted.la - Quoted.sb)
              w2 == (Quoted.sa - Quoted.sb) + (Quoted.la - Quoted.lb)
              step2 == IF w2 >= 2 THEN w2 ELSE 2
              lp == current_limit_price_attempt'
          IN /\ price_to_chase = 2 * start + n * step2
             /\ 2 * lp - price_to_chase \in {-1, 0, 1}
             /\ price_to_chase <= 2 * Quoted.sa
             /\ start <= lp /\ lp <= Quoted.sa]_vars

\* C23 witness: a close chase has submitted three orders, the first at
\* the best credit, the third at a debit (a limit above zero).
C23_Witness ==
    /\ chase = "close" /\ Len(orders) = 3
    /\ orders[1].lp = -(Quoted.la - Quoted.sb)
    /\ orders[1].lp < orders[2].lp /\ orders[2].lp < orders[3].lp
    /\ orders[3].lp > 0

RECURSIVE FilledUpTo(_)
\* The quantity filled at the broker over the first n orders of the chase.
FilledUpTo(n) == IF n = 0 THEN 0 ELSE FilledUpTo(n - 1) + orders[n].filled

\* The quantity filled at the broker over all orders of the chase.
BrokerFilled == FilledUpTo(Len(orders))

\* C24: the quantity filled at the broker over all orders of an open
\* chase never exceeds the quantity requested.
C24_BrokerNeverOverFilled ==
    chase = "open" => BrokerFilled <= original_intended_quantity

\* C25: when an open or close chase ends with a summary or a snapshot, the
\* cumulative filled quantity in it is the quantity filled at the broker
\* over all orders of the chase.
C25_ReportedIsBrokerFilled ==
    (chase \in {"open", "close"} /\ ReturnsAggregate) =>
        ret.qty = BrokerFilled

\* C26: in the single-leg chase, when the order of a rung was reconciled
\* with less than its quantity filled, the next call of submit_order comes
\* after a cancel request for that order (or after the broker itself
\* canceled it).
C26_LegCancelBeforeNextRung ==
    [][(/\ chase = "leg" /\ Submits
        /\ Len(orders) >= 1
        /\ orders[Cur].rec > 0
        /\ orders[Cur].rec < orders[Cur].qty) =>
          (cancel_answer # "none" \/ orders[Cur].st = "canceled")]_vars

RECURSIVE ReconciledUpTo(_), ValueUpTo(_), CommissionUpTo(_)
\* Over the first n orders: the quantities reconciled, their reported
\* average price times quantity, and their reported commissions.
ReconciledUpTo(n) ==
    IF n = 0 THEN 0 ELSE ReconciledUpTo(n - 1) + orders[n].rec

ValueUpTo(n) ==
    IF n = 0 THEN 0
    ELSE ValueUpTo(n - 1) + orders[n].avg * orders[n].rec

CommissionUpTo(n) ==
    IF n = 0 THEN 0
    ELSE CommissionUpTo(n - 1)
           + (IF orders[n].com = << >> THEN 0 ELSE orders[n].com[1])

\* C27: the summary an open chase returns has as filled quantity the sum
\* of the quantities reconciled per rung, as average price the sum of
\* price times quantity over those rungs divided by that quantity (kept as
\* the pair value, quantity), and as commission the sum of the
\* commissions reported for those rungs.
C27_OpenSummaryTotals ==
    (chase = "open" /\ Ended /\ ret.kind = "summary") =>
        /\ ret.qty = ReconciledUpTo(Len(orders))
        /\ ret.qty > 0
        /\ ret.value = ValueUpTo(Len(orders))
        /\ ret.commission = CommissionUpTo(Len(orders))

\* C27 witness: an open chase returned a summary of two rungs that filled
\* at different average prices.
C27_Witness ==
    /\ chase = "open" /\ Ended /\ ret.kind = "summary"
    /\ Cardinality(FilledRungs) >= 2
    /\ \E i, j \in FilledRungs : orders[i].avg # orders[j].avg
    /\ ret.commission >= 2

\* C28: the result of a close chase that filled in two or more rungs
\* reports the cumulative filled quantity, the value of all filled rungs
\* (so their quantity-weighted average price), the sum of the commissions
\* of all filled rungs, and the id of an order that received a fill.
C28_CloseResultTotals ==
    (chase = "close" /\ ReturnsAggregate /\ Cardinality(FilledRungs) >= 2) =>
        /\ ret.qty = ReconciledUpTo(Len(orders))
        /\ ret.value = ValueUpTo(Len(orders))
        /\ ret.commission = CommissionUpTo(Len(orders))
        /\ ret.id \in FilledRungs

\* The running totals of the open chase.
open_aggregator ==
    <<remaining_overall_quantity, total_cost_so_far, total_filled_qty,
      total_filled_value, total_commission>>

\* C29: when the fill wait of an open-chase rung times out, the running
\* totals (remaining quantity, cost so far, filled quantity, value and
\* commission) are left as they were, nothing is submitted before the
\* cancel request for the rung's order has been answered, and the rung ends
\* with that request answered and the totals still as they were.
C29_TimeoutRungLeavesTotals ==
    [][/\ (chase = "open" /\ pc = "wait" /\ pc' = "cancelTimeout") =>
              /\ UNCHANGED open_aggregator
              /\ Len(orders') = Len(orders)
       /\ (chase = "open" /\ pc = "cancelTimeout") =>
              /\ ~Submits
              /\ Len(orders') = Len(orders)
              /\ UNCHANGED open_aggregator
              /\ pc' # pc => /\ cancel_answer' # "none"
                             /\ pc' \in {"loop", "done"}
                             /\ pc' = "done" => ret' = Absent]_vars

\* C29 witness: after a rung that filled, the next rung timed out with a
\* late fill at the broker, its cancel was answered and the chase is back
\* at the loop test with the totals of the first rung only.
C29_Witness ==
    /\ chase = "open" /\ pc = "loop"
    /\ Len(orders) = 2
    /\ cancel_answer \in {"ok", "422"}
    /\ orders[1].rec > 0
    /\ orders[2].rec = 0
    /\ orders[2].filled > 0
    /\ total_filled_qty = orders[1].rec
    /\ total_commission = CommissionUpTo(1)

UpdatesPut(tr) ==
    {i \in 1..Len(put_log) :
        put_log[i].func = "update_trade" /\ put_log[i].trade = tr}

\* C34: every update put on the queue names the trade of a notifier that
\* has invoked its callback, and every notifier that has invoked its
\* callback has put exactly one update, naming the trade it was started
\* for, whatever the order in which the notifiers complete and wherever the
\* closing loop is by then.
C34_UpdateNamesOwnTrade ==
    /\ \A i \in 1..Len(put_log) :
          put_log[i].func = "update_trade" =>
             \E t \in Notifiers : /\ notifier[t].trade = put_log[i].trade
                                   /\ notifier[t].calls = 1
    /\ \A t \in Notifiers :
          Cardinality(UpdatesPut(notifier[t].trade)) = notifier[t].calls
    /\ \A t, u \in Notifiers :
          notifier[t].trade = notifier[u].trade => t = u

\* C34 witness: two notifiers were outstanding at once; the one started
\* for the second trade completed first, and the one started for the first
\* trade put its update after the loop had gone on to the second trade.
C34_Witness ==
    /\ Len(notifier) = 2
    /\ Len(put_log) = 2
    /\ put_log[1] = [func |-> "update_trade", trade |-> notifier[2].trade,
                     price |-> notifier[2].snapshot[2]]
    /\ put_log[2] = [func |-> "update_trade", trade |-> notifier[1].trade,
                     price |-> notifier[1].snapshot[2]]
    /\ notifier[1].trade = 1 /\ notifier[2].trade = 2

\* The close chase returned having reconciled the whole quantity asked for.
FullyFilled ==
    /\ chase = "close" /\ Ended
    /\ ret.kind = "snapshot"
    /\ ret.qty = original_intended_quantity

\* The rungs of the chase filled at two or more different prices.
SlicesDiffer == \E i, j \in FilledRungs : orders[i].avg # orders[j].avg

\* the updates executed for trade tr
UpdatesExecuted(tr) ==
    {i \in 1..Len(executed) :
        executed[i].func = "update_trade" /\ executed[i].trade = tr}

\* C31: when the close chase filled the whole quantity in slices at
\* different prices, the Close Price of the update executed for the trade
\* is the quantity-weighted average over all slices that the chase
\* computed (price times quantity equals the cumulative value).
C31_ClosePriceIsWeightedAverage ==
    (FullyFilled /\ SlicesDiffer) =>
        \A i \in UpdatesExecuted(1) :
            executed[i].price * ret.qty = ret.value

\* C32: an update (with its Close Date) is put on the queue for a trade
\* only if the close chase reconciled, or the gateway filled, the full
\* Size of the trade.
C32_ClosedOnlyWhenFullyFilled ==
    \A i \in 1..Len(put_log) :
        put_log[i].func = "update_trade" =>
            \/ total_filled_qty = open_trades[put_log[i].trade]
            \/ BrokerFilled >= open_trades[put_log[i].trade]

\* A status poll of a notifier failed.
PollFailed == \E t \in Notifiers : notifier[t].outcome = "error"

\* C33: when the close chase filled the full Size of the trade, then,
\* unless a status poll of the notifier fails, exactly one update_trade is
\* eventually executed for the trade, before the closing phase of the run
\* is left; never more than one is executed.
C33_FullFillIsPersisted ==
    /\ FullyFilled ~> (PollFailed \/ Cardinality(UpdatesExecuted(1)) = 1)
    /\ [](Cardinality(UpdatesExecuted(1)) <= 1)
    /\ []((FullyFilled /\ ~PollFailed /\ run_pc \notin {"closing", "join", "drain"})
             => Cardinality(UpdatesExecuted(1)) = 1)

\* C33 witness: the chase filled the trade in two slices, the notifier
\* got the order at its first poll and the update was executed in the drain
\* that follows the join.
C33_Witness ==
    /\ FullyFilled
    /\ Cardinality(FilledRungs) >= 2
    /\ Len(notifier) = 1
    /\ notifier[1].outcome = "returned"
    /\ Cardinality(UpdatesExecuted(1)) = 1
    /\ run_pc = "returned"

\* the distance between two prices
Dist(a, b) == IF a >= b THEN a - b ELSE b - a

\* floor(|bound - start| / step) + 1
LadderLength(start, bound, step) ==
    (Dist(bound, start) \div Dist(step, 0)) + 1

\* the ladder of the chase in progress, from the quotes it was given:
\* start, bound and step, or none when the chase ends before its loop
Ladder ==
    IF chase = "leg"
    THEN LET g == get_single_option_quotes(client_ok, quotes)
         IN [ok |-> /\ g.ok
                    /\ position_intent \in {"SELL_TO_CLOSE", "BUY_TO_CLOSE"},
             start |-> LegStartPrice(g, position_intent),
             bound |-> LegBound(g, position_intent),
             step |-> LegStep(g, position_intent)]
    ELSE IF chase = "open"
    THEN [ok |-> /\ client_ok /\ Quoted.ok
                 /\ original_intended_quantity >= 1,
          start |-> OpenStartPrice(Quoted), bound |-> OpenBound(Quoted),
          step |-> ChaseStep(Quoted)]
    ELSE [ok |-> client_ok /\ Quoted.ok,
          start |-> CloseStartPrice(Quoted), bound |-> CloseBound(Quoted),
          step |-> ChaseStep(Quoted)]

\* the rungs of the ladder from the current price to the bound
RungsLeft ==
    IF (chase_step >= 0 /\ price_to_chase > effective_max_chase_price)
         \/ (chase_step < 0 /\ price_to_chase < effective_max_chase_price)
    THEN 0
    ELSE LadderLength(price_to_chase, effective_max_chase_price, chase_step)

\* A measure of what a chase has left to do: the rungs left on its ladder
\* and, within a rung, the steps left (submit, poll, deadline, cancel).
Rank ==
    IF pc = "done" THEN 0
    ELSE IF pc = "start"
    THEN 5 * (IF Ladder.ok
              THEN LadderLength(Ladder.start, Ladder.bound, Ladder.step)
              ELSE 0) + 5
    ELSE 5 * RungsLeft
           + (IF pc = "loop" THEN 4
              ELSE IF pc = "wait" /\ ~polled THEN 3
              ELSE IF pc = "wait" THEN 2
              ELSE 1)

\* where the chase is: a step of the chase itself (a gateway call that
\* returns, a fill wait that ends) changes it, a step of the broker does not
position == <<pc, polled, price_to_chase>>

ChaseStepTaken == position' # position

\* C35: in each of the three chases the step is at least one cent, the
\* ladder price is the start plus one step per rung gone through (it is
\* never reset), and the chase submits at most
\* floor(|bound - start| / step) + 1 orders; the chase terminates: a chase
\* that has not ended can take a step, and every step it takes lowers a
\* measure that is a natural number.
C35_ChaseTerminates ==
    /\ [](LET ladder == Ladder
              length == IF ladder.ok
                        THEN LadderLength(ladder.start, ladder.bound,
                                          ladder.step)
                        ELSE 0
          IN /\ ladder.ok => Dist(ladder.step, 0) >= 2
             /\ (ladder.ok /\ pc \notin {"start", "done"}) =>
                    \E n \in 0..Len(submit_answer) :
                       /\ price_to_chase = ladder.start + n * ladder.step
                       /\ n >= Len(submit_answer) - 1
             /\ Len(submit_answer) <= length
             /\ Rank >= 0
             /\ ~Ended => ENABLED <<NextOpen \/ NextClose \/ NextLeg>>_vars)
    /\ [][ChaseStepTaken => Rank' < Rank]_vars

\* C35 witness: a chase has ended on its price bound after submitting as
\* many orders as its ladder has rungs, three or more.
C35_Witness ==
    /\ Ended /\ Ladder.ok
    /\ endReason = "exhausted"
    /\ Len(submit_answer) =
           LadderLength(Ladder.start, Ladder.bound, Ladder.step)
    /\ Len(submit_answer) >= 3

\* C36: once an open chase or a close chase has entered its loop, the
\* remaining quantity plus the cumulative filled quantity is the quantity
\* requested, the cumulative filled quantity being the sum of what the chase
\* reconciled of its orders; and every order submitted has a quantity of at
\* least 1 and at most the quantity that remained when it was submitted.
C36_RemainingPlusFilledIsRequested ==
    (chase \in {"open", "close"} /\ LoopEntered) =>
        /\ remaining_overall_quantity + total_filled_qty
               = original_intended_quantity
        /\ total_filled_qty = ReconciledUpTo(Len(orders))
        /\ remaining_overall_quantity >= 0
        /\ \A i \in 1..Len(orders) :
              /\ orders[i].remAt
                     = original_intended_quantity - ReconciledUpTo(i - 1)
              /\ 1 <= orders[i].qty
              /\ orders[i].qty <= orders[i].remAt

\* C36 witness: after a partial fill of the first order, a second order is
\* waiting for the quantity that remained, which is at least 1 and below
\* the quantity requested.
C36_Witness ==
    /\ chase \in {"open", "close"} /\ pc = "wait"
    /\ Len(orders) = 2
    /\ orders[1].rec > 0
    /\ total_filled_qty = orders[1].rec
    /\ remaining_overall_quantity = orders[2].remAt
    /\ orders[2].qty = orders[2].remAt
    /\ orders[2].remAt < original_intended_quantity

\* the ladder of the call that passes neither argument
ReferenceLadder == OpenLadder(Quoted, << >>, << >>)

C38_BelowOneReturnsAbsent ==
    (chase = "open" /\ original_intended_quantity < 1) =>
        /\ pc \in {"start", "done"}
        /\ price_to_chase = 0 /\ chase_step = 0
        /\ effective_max_chase_price = 0
        /\ submit_answer = << >> /\ orders = << >>
        /\ on_filled_calls = 0 /\ on_filled_args = << >>
        /\ ret = Absent
        /\ Ended => endReason \in {"no_client", "precondition"}

\* C38 witness: a call for a quantity of 0, made while the quote source has
\* no quote for a leg, has returned None on the quantity check.
C38_Witness ==
    /\ chase = "open" /\ Ended
    /\ original_intended_quantity < 1
    /\ client_ok /\ ~Quoted.ok
    /\ endReason = "precondition"
    /\ ret = Absent /\ orders = << >> /\ on_filled_calls = 0

====
